---------------------------- MODULE Spec2Model ----------------------------
(***************************************************************************)
(* A model of babbage-kvstore's localKVStore (src/src/LocalKVStore.ts): a  *)
(* key-value store whose records are PushDrop token outputs kept by a      *)
(* wallet.  The wallet (listOutputs, createAction, signAction,             *)
(* relinquishOutput, encrypt, decrypt) and the PushDrop codec are the      *)
(* collaborators; every await of get, set and remove is one step.  The     *)
(* same wallet serves KVStorePersonal (src/src/KVStorePersonal.ts and its  *)
(* updateToken); Historian (src/unnamed/part_000) is a function of an      *)
(* envelope, applied in one step.                                          *)
(***************************************************************************)
EXTENDS Integers, Sequences, FiniteSets, TLC

\* ------------------------------------------------------------------ bounds
MaxValue == 2       \* values written are 1..MaxValue
MaxInit == 2        \* tokens the basket holds when the store is constructed
MaxCalls == 2       \* calls issued in one behaviour, on any key
ChainCalls == 3     \* calls issued in one behaviour, all on one key
MaxFaults == 1      \* collaborator failures injected in one behaviour
PageLimit == 1      \* outputs a paging wallet returns in one listOutputs result

\* --------------------------------------------------------------- constants
Keys == {"k1", "k2"}
Values == 1..MaxValue
Context == "kvstore-default"        \* this.context
NoBasket == "(none)"                \* an output filed in no basket
NoKey == "(none)"
Garbled == 0                        \* toUTF8 of bytes that are no plaintext
Undefined == <<"undefined">>
Procs == {1, 2}                     \* callers
SeqProcs == {1}                     \* the single caller of Spec

VARIABLES
    encrypt,    \* this.encrypt
    outputs,    \* the wallet's outputs: outpoint -> [basket, tags, lockingScript, spent]
    actions,    \* the wallet's actions, by txid: [inputs, outputs, status]
    call,       \* per caller: the call in progress, its locals and its position
    history,    \* the completed calls, oldest first
    workload,   \* what the caller does: the keys it uses, how many calls
    ncalls,     \* calls begun so far
    nfaults     \* collaborator failures injected so far

vars == <<encrypt, outputs, actions, call, history, workload, ncalls, nfaults>>

\* ------------------------------------------------------- bytes and scripts
NoBytes == [enc |-> FALSE, keyID |-> NoKey, data |-> Garbled]

\* Utils.toArray(value, 'utf8')
ToArray(value) == [enc |-> FALSE, keyID |-> NoKey, data |-> value]

\* Utils.toUTF8(bytes): ciphertext read as text is not the value
ToUTF8(bytes) == IF bytes.enc THEN Garbled ELSE bytes.data

\* wallet.encrypt({plaintext, protocolID: [2, context], keyID})
WalletEncrypt(plaintext, keyID) ==
    [enc |-> TRUE, keyID |-> keyID, data |-> plaintext.data]

\* wallet.decrypt accepts only a ciphertext made under the same keyID
WalletDecryptOk(ciphertext, keyID) == ciphertext.enc /\ ciphertext.keyID = keyID

WalletDecrypt(ciphertext, keyID) ==
    [enc |-> FALSE, keyID |-> NoKey, data |-> ciphertext.data]

NoScript == [decodable |-> FALSE, fields |-> <<>>, keyID |-> NoKey]

\* pushdrop.lock(fields, [2, context], keyID, 'self')
PushDropLock(fields, keyID) ==
    [decodable |-> TRUE, fields |-> fields, keyID |-> keyID]

\* a script the unlocker of (protocol, keyID) can spend
Spendable(script, keyID) == script.decodable /\ script.keyID = keyID

\* the bytes set() puts into the token: the ciphertext when encrypting
StoredBytes(enc, key, value) ==
    IF enc THEN WalletEncrypt(ToArray(value), key) ELSE ToArray(value)

\* ------------------------------------------------------------ wallet views
Outpoint(txid, vout) == <<txid, vout>>

\* `${txid}.0`
OutpointString(txid) == <<"outpoint", txid, 0>>

\* the outputs listOutputs({basket, tags: [tag]}) matches
Slot(basket, tag) ==
    {o \in DOMAIN outputs :
        /\ outputs[o].basket = basket
        /\ tag \in outputs[o].tags
        /\ ~outputs[o].spent}

\* every order in which the wallet may list a set of outputs
Listings(S) ==
    {s \in [1..Cardinality(S) -> S] : \A i, j \in DOMAIN s : i # j => s[i] # s[j]}

Range(s) == {s[i] : i \in DOMAIN s}


\* ------------------------------------------------- decisions of the store
\* the output both createAction calls of set() ask for: a locking script,
\* one satoshi and a description; neither a basket nor tags are passed
TokenOutput(lockingScript) ==
    [lockingScript |-> lockingScript, satoshis |-> 1,
     basket |-> NoBasket, tags |-> {}]

\* (variant: the test is inverted, an empty listing takes the spending branch)
HasExisting_Inverted(results) == results.totalOutputs = 0

\* (variant: the branch on the listing is taken whatever was listed)
HasExisting_Always(results) == TRUE

\* if (results.totalOutputs !== 0) of set, if (results.totalOutputs === 0) of remove
HasExisting(results) == results.totalOutputs # 0

\* variant: the inputs listed in the reverse of the snapshot's order
SpendInputs_Reversed(results) ==
    [i \in 1..Len(results.outputs) |->
        results.outputs[Len(results.outputs) + 1 - i]]

\* (variant: only the first listed output is consumed, as in updateToken)
SpendInputs_First(results) ==
    [i \in 1..(IF Len(results.outputs) = 0 THEN 0 ELSE 1) |-> results.outputs[i]]

\* the inputs loop: one input per listed output, in listed order
SpendInputs(results) ==
    [i \in 1..Len(results.outputs) |-> results.outputs[i]]

\* remove()'s createAction has no outputs key
RemoveOutputs == <<>>

\* (variant: the loop index is not used, the first output is named each time)
RelinquishArgs_First(results, i) ==
    [output |-> results.outputs[1], basket |-> Context]

\* the i-th relinquishOutput of the catch block (i from 1)
RelinquishArgs(results, i) ==
    [output |-> results.outputs[i], basket |-> Context]

\* (variant: the catch block locates again and retries)
SetAfterCatch_Retry == "set_list"

\* where set() goes on after its catch block: the creation below the if
SetAfterCatch == "set_create"

\* (variant: the bare txid is returned, without the output index)
SetCreateResult_Txid(txid) == <<"txid", txid>>

\* what set() resolves to after the creation: `${txid}.0` of that action
SetCreateResult(txid) == OutpointString(txid)

\* (variant: nothing found answers undefined, the default is ignored)
GetOutcome_NoDefault(listing, scriptOf, defaultValue, enc) ==
    IF Len(listing) = 0 THEN
        [pc |-> "resolved", ret |-> Undefined, fields |-> <<>>]
    ELSE
        [pc |-> "rejected",
         ret |-> <<"error", "Multiple tokens found for this key">>,
         fields |-> <<>>]

\* (variant: several tokens found, the first one is read, as with limit: 1)
GetOutcome_PickFirst(listing, scriptOf, defaultValue, enc) ==
    IF Len(listing) = 0 THEN
        [pc |-> "resolved", ret |-> defaultValue, fields |-> <<>>]
    ELSE LET script == scriptOf[listing[1]] IN
        IF ~script.decodable \/ Len(script.fields) # 1 THEN
            [pc |-> "rejected",
             ret |-> <<"error", "Invalid value found", listing[1], Context>>,
             fields |-> <<>>]
        ELSE IF ~enc THEN
            [pc |-> "resolved",
             ret |-> <<"value", ToUTF8(script.fields[1])>>,
             fields |-> script.fields]
        ELSE
            [pc |-> "get_decrypt", ret |-> Undefined, fields |-> script.fields]

\* (variant: the number of decoded fields is not looked at)
GetOutcome_NoFieldCount(listing, scriptOf, defaultValue, enc) ==
    IF Len(listing) = 0 THEN
        [pc |-> "resolved", ret |-> defaultValue, fields |-> <<>>]
    ELSE IF Len(listing) > 1 THEN
        [pc |-> "rejected",
         ret |-> <<"error", "Multiple tokens found for this key">>,
         fields |-> <<>>]
    ELSE LET script == scriptOf[listing[1]] IN
        IF ~script.decodable \/ Len(script.fields) = 0 THEN
            [pc |-> "rejected",
             ret |-> <<"error", "Invalid value found", listing[1], Context>>,
             fields |-> <<>>]
        ELSE IF ~enc THEN
            [pc |-> "resolved",
             ret |-> <<"value", ToUTF8(script.fields[1])>>,
             fields |-> script.fields]
        ELSE
            [pc |-> "get_decrypt", ret |-> Undefined, fields |-> script.fields]

\* get() once listOutputs has answered with `listing` (a sequence of outpoints
\* whose scripts are read through `scriptOf`): the next position and result
GetOutcome(listing, scriptOf, defaultValue, enc) ==
    IF Len(listing) = 0 THEN
        [pc |-> "resolved", ret |-> defaultValue, fields |-> <<>>]
    ELSE IF Len(listing) > 1 THEN
        [pc |-> "rejected",
         ret |-> <<"error", "Multiple tokens found for this key">>,
         fields |-> <<>>]
    ELSE LET script == scriptOf[listing[1]] IN
        IF ~script.decodable \/ Len(script.fields) # 1 THEN
            [pc |-> "rejected",
             ret |-> <<"error", "Invalid value found", listing[1], Context>>,
             fields |-> <<>>]
        ELSE IF ~enc THEN
            [pc |-> "resolved",
             ret |-> <<"value", ToUTF8(script.fields[1])>>,
             fields |-> script.fields]
        ELSE
            [pc |-> "get_decrypt", ret |-> Undefined, fields |-> script.fields]

\* ------------------------------------------------------------------- state
NoResults == [outputs |-> <<>>, totalOutputs |-> 0]

IdleCall ==
    [pc |-> "idle", op |-> "none", key |-> NoKey, value |-> Garbled,
     defaultValue |-> Undefined, valueAsArray |-> NoBytes,
     lockingScript |-> NoScript, results |-> NoResults, fields |-> <<>>,
     reference |-> 0, spends |-> <<>>, i |-> 0, ret |-> Undefined,
     log |-> <<>>, failed |-> <<>>, slot0 |-> {}, before |-> <<>>,
     actions0 |-> <<>>]

ScriptKinds ==
    {<<"ok", v>> : v \in Values} \cup {<<"twoFields", 0>>, <<"undecodable", 0>>}

\* the tokens the basket may hold at construction: of the first key, sound or
\* corrupt ones; of any other key, a sound one
InitTokens ==
    ({"k1"} \X ScriptKinds) \cup ((Keys \ {"k1"}) \X {<<"ok", 1>>})

\* the locking script of a token found in the basket at construction
ScriptOf(enc, key, kind) ==
    CASE kind[1] = "ok" -> PushDropLock(<<StoredBytes(enc, key, kind[2])>>, key)
      [] kind[1] = "twoFields" -> PushDropLock(<<ToArray(1), ToArray(1)>>, key)
      [] OTHER -> NoScript

\* a text that no set() of the behaviour writes, passed as a default
DefaultText == MaxValue + 1

\* the wallet handed to the constructor holds up to MaxInit tokens in the basket
Constructed(tokens) ==
    /\ encrypt \in BOOLEAN
    /\ \E n \in 0..MaxInit : \E spec \in [1..n -> tokens] :
        /\ outputs =
             [o \in {Outpoint(j, 0) : j \in 1..n} |->
                [basket |-> Context, tags |-> {spec[o[1]][1]},
                 lockingScript |-> ScriptOf(encrypt, spec[o[1]][1], spec[o[1]][2]),
                 spent |-> FALSE]]
        /\ actions =
             [j \in 1..n |->
                [inputs |-> <<>>,
                 outputs |-> <<[lockingScript |->
                                  ScriptOf(encrypt, spec[j][1], spec[j][2]),
                                satoshis |-> 1, basket |-> Context,
                                tags |-> {spec[j][1]}]>>,
                 status |-> "sent"]]
    /\ call = [p \in Procs |-> IdleCall]
    /\ history = <<>>
    /\ ncalls = 0
    /\ nfaults = 0

\* a caller that uses every key
Init == Constructed(InitTokens) /\ workload = [keys |-> Keys, calls |-> MaxCalls]

\* a caller that keeps to one key, for longer
InitChain == Constructed({"k1"} \X ScriptKinds) /\ workload = [keys |-> {"k1"}, calls |-> ChainCalls]

\* ------------------------------------------------------------ wallet steps
MayFail == nfaults < MaxFaults

Logged(c, entry) == Append(c.log, entry)

\* the call of caller p becomes record r
Becomes(p, r) == call' = [call EXCEPT ![p] = r]

\* a collaborator throws at `point` and the error leaves the method
Rejects(p, point, entry) ==
    /\ MayFail
    /\ nfaults' = nfaults + 1
    /\ Becomes(p, [call[p] EXCEPT !.pc = "rejected",
                                  !.ret = <<"error", point>>,
                                  !.failed = Append(@, point),
                                  !.log = Append(@, entry)])
    /\ UNCHANGED <<workload, encrypt, outputs, actions, history, ncalls>>

\* the wallet's createAction: the action is recorded under a new txid; with no
\* inputs to sign it is sent at once and its outputs exist, each filed in the
\* basket and under the tags its output asked for
NewTxid == Len(actions) + 1

CreatedOutputs(txid, outs) ==
    [o \in {Outpoint(txid, k - 1) : k \in 1..Len(outs)} |->
        [basket |-> outs[o[2] + 1].basket, tags |-> outs[o[2] + 1].tags,
         lockingScript |-> outs[o[2] + 1].lockingScript, spent |-> FALSE]]

\* the wallet's signAction accepts the spends of a signable action when every
\* input is still unspent, has its unlocking script, and that script unlocks it
\* variant: a ledger that accepts a spend of an output already spent
SignAccepted_DoubleSpend(txid, spends, key) ==
    LET ins == actions[txid].inputs IN
    /\ \A k \in 1..Len(ins) :
        /\ Spendable(outputs[ins[k]].lockingScript, key)
        /\ \E s \in Range(spends) : s.index = k - 1 /\ s.tx = txid

SignAccepted(txid, spends, key) ==
    LET ins == actions[txid].inputs IN
    /\ \A k \in 1..Len(ins) :
        /\ ~outputs[ins[k]].spent
        /\ Spendable(outputs[ins[k]].lockingScript, key)
        /\ \E s \in Range(spends) : s.index = k - 1 /\ s.tx = txid

\* the outputs after action txid was accepted: inputs spent, outputs created
Settled(txid) ==
    LET ins == Range(actions[txid].inputs)
        made == CreatedOutputs(txid, actions[txid].outputs) IN
    [o \in DOMAIN outputs \cup DOMAIN made |->
        IF o \in DOMAIN made THEN made[o]
        ELSE IF o \in ins THEN [outputs[o] EXCEPT !.spent = TRUE]
        ELSE outputs[o]]

\* the wallet's relinquishOutput: the output leaves the basket, unspent
Relinquished(args) ==
    [o \in DOMAIN outputs |->
        IF o = args.output /\ outputs[o].basket = args.basket
        THEN [outputs[o] EXCEPT !.basket = NoBasket] ELSE outputs[o]]

\* --------------------------------------------------------- the three calls
Started(p, op, key, first) ==
    [IdleCall EXCEPT !.pc = first, !.op = op, !.key = key,
                     !.slot0 = Slot(Context, key), !.before = outputs,
                     !.actions0 = actions]

CanBegin(p) == call[p].pc = "idle" /\ ncalls < workload.calls

\* get(key, defaultValue) is called
GetCall(p) ==
    /\ CanBegin(p)
    /\ \E key \in workload.keys :
       \E d \in {Undefined, <<"value", DefaultText>>} :
          Becomes(p, [Started(p, "get", key, "get_list") EXCEPT !.defaultValue = d])
    /\ ncalls' = ncalls + 1
    /\ UNCHANGED <<workload, encrypt, outputs, actions, history, nfaults>>

\* set(key, value) is called: valueAsArray = Utils.toArray(value, 'utf8')
SetCall(p) ==
    /\ CanBegin(p)
    /\ \E key \in workload.keys : \E value \in Values :
          Becomes(p, [Started(p, "set", key,
                              IF encrypt THEN "set_encrypt" ELSE "set_lock")
                        EXCEPT !.value = value, !.valueAsArray = ToArray(value)])
    /\ ncalls' = ncalls + 1
    /\ UNCHANGED <<workload, encrypt, outputs, actions, history, nfaults>>

\* remove(key) is called
RemoveCall(p) ==
    /\ CanBegin(p)
    /\ \E key \in workload.keys : Becomes(p, Started(p, "remove", key, "remove_list"))
    /\ ncalls' = ncalls + 1
    /\ UNCHANGED <<workload, encrypt, outputs, actions, history, nfaults>>

\* the promise of a call settles: the call joins the history
Return(p) ==
    /\ call[p].pc \in {"resolved", "rejected"}
    /\ history' = Append(history, call[p])
    /\ Becomes(p, IdleCall)
    /\ UNCHANGED <<workload, encrypt, outputs, actions, ncalls, nfaults>>

\* ---------------------------------------------------------------------- get
\* await wallet.listOutputs({basket, tags: [key], include: 'locking scripts'})
\* and the branches on results.outputs.length, the decode included
GetListOutputs(p) ==
    LET c == call[p] IN
    /\ c.pc = "get_list"
    /\ \/ Rejects(p, "listOutputs", <<"listOutputs", Context, c.key>>)
       \/ /\ \E listing \in Listings(Slot(Context, c.key)) :
               LET out == GetOutcome(listing,
                              [o \in DOMAIN outputs |-> outputs[o].lockingScript],
                              c.defaultValue, encrypt) IN
               Becomes(p, [c EXCEPT
                   !.pc = out.pc, !.ret = out.ret, !.fields = out.fields,
                   !.results = [outputs |-> listing, totalOutputs |-> Len(listing)],
                   !.log = Append(@, <<"listOutputs", Context, c.key>>)])
          /\ UNCHANGED <<workload, encrypt, outputs, actions, history, ncalls, nfaults>>

\* await wallet.decrypt({protocolID, keyID: key, ciphertext: fields[0]})
GetDecrypt(p) ==
    LET c == call[p] IN
    /\ c.pc = "get_decrypt"
    /\ \/ Rejects(p, "decrypt", <<"decrypt", c.key>>)
       \/ /\ ~WalletDecryptOk(c.fields[1], c.key)
          /\ Becomes(p, [c EXCEPT !.pc = "rejected", !.ret = <<"error", "decrypt">>,
                                  !.failed = Append(@, "decrypt"),
                                  !.log = Append(@, <<"decrypt", c.key>>)])
          /\ UNCHANGED <<workload, encrypt, outputs, actions, history, ncalls, nfaults>>
       \/ /\ WalletDecryptOk(c.fields[1], c.key)
          /\ Becomes(p, [c EXCEPT
                !.pc = "resolved",
                !.ret = <<"value", ToUTF8(WalletDecrypt(c.fields[1], c.key))>>,
                !.log = Append(@, <<"decrypt", c.key>>)])
          /\ UNCHANGED <<workload, encrypt, outputs, actions, history, ncalls, nfaults>>

\* --------------------------------------------- the consolidation, both calls
\* (variant: no catch block, the error of the consolidation leaves the method)
Caught_Rethrow(c, point, entry, after) ==
    [c EXCEPT !.pc = "rejected",
              !.ret = <<"error", point>>,
              !.failed = Append(@, point),
              !.log = Append(@, entry)]

\* the catch block is entered: relinquish from the first listed output on, or
\* go on at `after` when nothing was listed
Caught(c, point, entry, after) ==
    [c EXCEPT !.pc = IF Len(c.results.outputs) = 0 THEN after
                     ELSE IF c.op = "set" THEN "set_relinquish"
                     ELSE "remove_relinquish",
              !.i = 1,
              !.failed = Append(@, point),
              !.log = Append(@, entry)]

\* the outputs of one listOutputs result: all that match, or, for a wallet
\* that pages (workload.limit), the first page; totalOutputs counts all
Page(listing) ==
    IF "limit" \in DOMAIN workload /\ Len(listing) > workload.limit
    THEN SubSeq(listing, 1, workload.limit) ELSE listing

\* await wallet.listOutputs({basket, tags: [key], include: 'entire transactions'})
Listed(p, ifSome, ifNone) ==
    LET c == call[p] IN
    \/ Rejects(p, "listOutputs", <<"listOutputs", Context, c.key>>)
    \/ /\ \E listing \in Listings(Slot(Context, c.key)) :
            LET results == [outputs |-> Page(listing), totalOutputs |-> Len(listing)] IN
            Becomes(p, [c EXCEPT
                !.results = results,
                !.pc = IF HasExisting(results) THEN ifSome ELSE ifNone,
                !.log = Append(@, <<"listOutputs", Context, c.key>>)])
       /\ UNCHANGED <<workload, encrypt, outputs, actions, history, ncalls, nfaults>>

\* await wallet.createAction({inputBEEF, inputs, outputs}) for a signable action
Drafted(p, outs, signAt, after) ==
    LET c == call[p]
        entry == <<"createAction", NewTxid>> IN
    \/ /\ MayFail
       /\ nfaults' = nfaults + 1
       /\ Becomes(p, Caught(c, "draft", <<"createAction", 0>>, after))
       /\ UNCHANGED <<workload, encrypt, outputs, actions, history, ncalls>>
    \/ /\ actions' = Append(actions, [inputs |-> SpendInputs(c.results),
                                      outputs |-> outs, status |-> "signable"])
       /\ Becomes(p, [c EXCEPT !.reference = NewTxid, !.i = 1, !.spends = <<>>,
                               !.pc = signAt,
                               !.log = Append(@, entry)])
       /\ UNCHANGED <<workload, encrypt, outputs, history, ncalls, nfaults>>

\* one turn of the spends loop: await unlocker.sign(tx, i)
Signed(p, submitAt, after) ==
    LET c == call[p] IN
    \/ /\ c.i > Len(c.results.outputs)
       /\ Becomes(p, [c EXCEPT !.pc = submitAt])
       /\ UNCHANGED <<workload, encrypt, outputs, actions, history, ncalls, nfaults>>
    \/ /\ c.i <= Len(c.results.outputs)
       /\ \/ /\ MayFail
             /\ nfaults' = nfaults + 1
             /\ Becomes(p, Caught(c, "sign", <<"sign", c.i - 1>>, after))
             /\ UNCHANGED <<workload, encrypt, outputs, actions, history, ncalls>>
          \/ /\ Becomes(p, [c EXCEPT
                   !.spends = Append(@, [index |-> c.i - 1, tx |-> c.reference]),
                   !.i = c.i + 1,
                   !.log = Append(@, <<"sign", c.i - 1>>)])
             /\ UNCHANGED <<workload, encrypt, outputs, actions, history, ncalls, nfaults>>

\* await wallet.signAction({reference, spends}); return `${txid}.0`
Submitted(p, after) ==
    LET c == call[p]
        entry == <<"signAction", c.reference>> IN
    \/ /\ MayFail
       /\ nfaults' = nfaults + 1
       /\ Becomes(p, Caught(c, "signAction", entry, after))
       /\ UNCHANGED <<workload, encrypt, outputs, actions, history, ncalls>>
    \/ /\ ~SignAccepted(c.reference, c.spends, c.key)
       /\ Becomes(p, Caught(c, "signAction", entry, after))
       /\ UNCHANGED <<workload, encrypt, outputs, actions, history, ncalls, nfaults>>
    \/ /\ SignAccepted(c.reference, c.spends, c.key)
       /\ outputs' = Settled(c.reference)
       /\ actions' = [actions EXCEPT ![c.reference].status = "sent"]
       /\ Becomes(p, [c EXCEPT !.pc = "resolved",
                               !.ret = OutpointString(c.reference),
                               !.log = Append(@, entry)])
       /\ UNCHANGED <<workload, encrypt, history, ncalls, nfaults>>

\* one turn of the catch block's loop: await wallet.relinquishOutput(...)
RelinquishedNext(p, after, afterRet) ==
    LET c == call[p]
        args == RelinquishArgs(c.results, c.i)
        entry == <<"relinquishOutput", args.output, args.basket>> IN
    \/ Rejects(p, "relinquishOutput", entry)
    \/ /\ outputs' = Relinquished(args)
       /\ Becomes(p, [c EXCEPT
             !.i = c.i + 1,
             !.pc = IF c.i < Len(c.results.outputs) THEN c.pc ELSE after,
             !.ret = IF c.i < Len(c.results.outputs) THEN c.ret ELSE afterRet,
             !.log = Append(@, entry)])
       /\ UNCHANGED <<workload, encrypt, actions, history, ncalls, nfaults>>

\* ---------------------------------------------------------------------- set
\* await wallet.encrypt({plaintext: valueAsArray, protocolID, keyID: key})
SetEncrypt(p) ==
    LET c == call[p] IN
    /\ c.pc = "set_encrypt"
    /\ \/ Rejects(p, "encrypt", <<"encrypt", c.key>>)
       \/ /\ Becomes(p, [c EXCEPT
                !.valueAsArray = WalletEncrypt(c.valueAsArray, c.key),
                !.pc = "set_lock",
                !.log = Append(@, <<"encrypt", c.key>>)])
          /\ UNCHANGED <<workload, encrypt, outputs, actions, history, ncalls, nfaults>>

\* await pushdrop.lock([valueAsArray], [2, context], key, 'self')
SetLock(p) ==
    LET c == call[p] IN
    /\ c.pc = "set_lock"
    /\ \/ Rejects(p, "lock", <<"lock", c.key>>)
       \/ /\ Becomes(p, [c EXCEPT
                !.lockingScript = PushDropLock(<<c.valueAsArray>>, c.key),
                !.pc = "set_list",
                !.log = Append(@, <<"lock", c.key>>)])
          /\ UNCHANGED <<workload, encrypt, outputs, actions, history, ncalls, nfaults>>

SetListOutputs(p) ==
    /\ call[p].pc = "set_list"
    /\ Listed(p, "set_draft", "set_create")

SetDraft(p) ==
    /\ call[p].pc = "set_draft"
    /\ Drafted(p, <<TokenOutput(call[p].lockingScript)>>, "set_sign", SetAfterCatch)

SetSign(p) ==
    /\ call[p].pc = "set_sign"
    /\ Signed(p, "set_signAction", SetAfterCatch)

SetSignAction(p) ==
    /\ call[p].pc = "set_signAction"
    /\ Submitted(p, SetAfterCatch)

SetRelinquish(p) ==
    /\ call[p].pc = "set_relinquish"
    /\ RelinquishedNext(p, SetAfterCatch, call[p].ret)

\* await wallet.createAction({outputs: [token]}) with no inputs; `${txid}.0`
SetCreate(p) ==
    LET c == call[p] IN
    /\ c.pc = "set_create"
    /\ \/ Rejects(p, "createAction", <<"createAction", 0>>)
       \/ /\ actions' = Append(actions,
                [inputs |-> <<>>, outputs |-> <<TokenOutput(c.lockingScript)>>,
                 status |-> "sent"])
          /\ outputs' = outputs @@
                CreatedOutputs(NewTxid, <<TokenOutput(c.lockingScript)>>)
          /\ Becomes(p, [c EXCEPT !.pc = "resolved",
                                  !.ret = SetCreateResult(NewTxid),
                                  !.log = Append(@, <<"createAction", NewTxid>>)])
          /\ UNCHANGED <<workload, encrypt, history, ncalls, nfaults>>

\* ------------------------------------------------------------------- remove
RemoveListOutputs(p) ==
    /\ call[p].pc = "remove_list"
    /\ Listed(p, "remove_draft", "resolved")

RemoveDraft(p) ==
    /\ call[p].pc = "remove_draft"
    /\ Drafted(p, RemoveOutputs, "remove_sign", "resolved")

RemoveSign(p) ==
    /\ call[p].pc = "remove_sign"
    /\ Signed(p, "remove_signAction", "resolved")

RemoveSignAction(p) ==
    /\ call[p].pc = "remove_signAction"
    /\ Submitted(p, "resolved")

RemoveRelinquish(p) ==
    /\ call[p].pc = "remove_relinquish"
    /\ RelinquishedNext(p, "resolved", Undefined)

\* ------------------------------------------------------------ specification
Step(p) ==
    \/ GetCall(p) \/ SetCall(p) \/ RemoveCall(p) \/ Return(p)
    \/ GetListOutputs(p) \/ GetDecrypt(p)
    \/ SetEncrypt(p) \/ SetLock(p) \/ SetListOutputs(p) \/ SetDraft(p)
    \/ SetSign(p) \/ SetSignAction(p) \/ SetRelinquish(p) \/ SetCreate(p)
    \/ RemoveListOutputs(p) \/ RemoveDraft(p) \/ RemoveSign(p)
    \/ RemoveSignAction(p) \/ RemoveRelinquish(p)

\* one caller whose calls follow one another
Next == \E p \in SeqProcs : Step(p)

Spec == Init /\ [][Next]_vars

SpecChain == InitChain /\ [][Next]_vars

\* two callers write the same key with no lock between them: the steps of their
\* set and remove calls interleave at every await
InitConcurrent ==
    /\ Constructed({"k1"} \X {<<"ok", 1>>})
    /\ workload = [keys |-> {"k1"}, calls |-> MaxCalls]

WriterStep(p) ==
    \/ SetCall(p) \/ RemoveCall(p) \/ Return(p)
    \/ SetEncrypt(p) \/ SetLock(p) \/ SetListOutputs(p) \/ SetDraft(p)
    \/ SetSign(p) \/ SetSignAction(p) \/ SetRelinquish(p) \/ SetCreate(p)
    \/ RemoveListOutputs(p) \/ RemoveDraft(p) \/ RemoveSign(p)
    \/ RemoveSignAction(p) \/ RemoveRelinquish(p)

NextConcurrent == \E p \in Procs : WriterStep(p)

SpecConcurrent == InitConcurrent /\ [][NextConcurrent]_vars

\* one caller, a wallet that returns at most PageLimit outputs per listOutputs
InitPaged ==
    /\ Constructed({"k1"} \X {<<"ok", 1>>})
    /\ workload = [keys |-> {"k1"}, calls |-> MaxCalls, limit |-> PageLimit]

NextPaged == \E p \in SeqProcs : WriterStep(p)

SpecPaged == InitPaged /\ [][NextPaged]_vars

\* a caller reads the key while another writes it
ReaderWriterStep(p) ==
    \/ GetCall(p) \/ SetCall(p) \/ Return(p)
    \/ GetListOutputs(p) \/ GetDecrypt(p)
    \/ SetEncrypt(p) \/ SetLock(p) \/ SetListOutputs(p) \/ SetDraft(p)
    \/ SetSign(p) \/ SetSignAction(p) \/ SetRelinquish(p) \/ SetCreate(p)

NextReadWrite == \E p \in Procs : ReaderWriterStep(p)

SpecReadWrite == InitConcurrent /\ [][NextReadWrite]_vars

\* ---------------------------------------------------------- KVStorePersonal
\* (src/src/KVStorePersonal.ts and its updateToken: the same wallet, no
\* encryption, one token looked at per call)
Basket == "kvstore-default"         \* this.config.basket
ListLimit == 1                      \* limit: 1 of both listOutputs calls
ResolvedTrue == <<"true">>
ResolvedFalse == <<"false">>

\* what listOutputs({..., limit}) answers when the wallet lists `listing`
Limited(listing, limit) ==
    SubSeq(listing, 1, IF Len(listing) < limit THEN Len(listing) ELSE limit)

\* (variant: the output is filed in no basket, as by localKVStore.set)
UpdateTokenOutput_NoBasket(lockingScript, key) ==
    [lockingScript |-> lockingScript, satoshis |-> 1,
     basket |-> NoBasket, tags |-> {}]

\* the output updateToken asks for: filed in the basket, tagged with the key
UpdateTokenOutput(lockingScript, key) ==
    [lockingScript |-> lockingScript, satoshis |-> 1,
     basket |-> Basket, tags |-> {key}]

\* const tokenOutput = existingUtxos.outputs[0]; inputs: [inputToConsume]
InputToConsume(results) == <<results.outputs[1]>>

\* (variant: nothing found and no script answers true)
NotFoundResult_True == ResolvedTrue

\* if (!newLockingScript) return false
NotFoundResult == ResolvedFalse

\* get() of KVStorePersonal once listOutputs has answered: the first listed
\* output is decoded and its first field returned; decode errors are thrown
PersonalGetOutcome(listing, scriptOf, defaultValue) ==
    IF Len(listing) = 0 THEN [pc |-> "resolved", ret |-> defaultValue]
    ELSE LET script == scriptOf[listing[1]] IN
        IF ~script.decodable THEN
            [pc |-> "rejected", ret |-> <<"error", "decode">>]
        ELSE IF Len(script.fields) = 0 THEN
            [pc |-> "rejected", ret |-> <<"error", "toUTF8">>]
        ELSE [pc |-> "resolved", ret |-> <<"value", ToUTF8(script.fields[1])>>]

\* the program of the README's example: set, get, set, get, remove, get
ReadmeScript ==
    <<"personal.set", "personal.get", "personal.set", "personal.get",
      "personal.remove", "personal.get">>

\* the caller's next call may be `op`
ScriptAllows(op) ==
    IF Len(workload.script) = 0 THEN TRUE ELSE workload.script[ncalls + 1] = op

\* a KVStorePersonal over a basket holding up to MaxInit tokens of one key,
\* called freely; or over an empty basket, called as the README's example does
InitPersonal ==
    /\ \/ /\ Constructed({"k1"} \X ScriptKinds)
          /\ workload = [keys |-> {"k1"}, calls |-> MaxCalls, script |-> <<>>]
       \/ /\ Constructed({})
          /\ workload = [keys |-> {"k1"}, calls |-> Len(ReadmeScript),
                         script |-> ReadmeScript]
    /\ encrypt = FALSE

PersonalStarted(p, op, key, first) ==
    [IdleCall EXCEPT !.pc = first, !.op = op, !.key = key,
                     !.slot0 = Slot(Basket, key), !.before = outputs,
                     !.actions0 = actions]

\* get(key, defaultValue) is called
PersonalGetCall(p) ==
    /\ CanBegin(p) /\ ScriptAllows("personal.get")
    /\ \E key \in workload.keys :
       \E d \in {Undefined, <<"value", DefaultText>>} :
          Becomes(p, [PersonalStarted(p, "personal.get", key, "personal_get_list")
                        EXCEPT !.defaultValue = d])
    /\ ncalls' = ncalls + 1
    /\ UNCHANGED <<workload, encrypt, outputs, actions, history, nfaults>>

\* set(key, value) is called
PersonalSetCall(p) ==
    /\ CanBegin(p) /\ ScriptAllows("personal.set")
    /\ \E key \in workload.keys : \E value \in Values :
          Becomes(p, [PersonalStarted(p, "personal.set", key, "personal_set_lock")
                        EXCEPT !.value = value, !.valueAsArray = ToArray(value)])
    /\ ncalls' = ncalls + 1
    /\ UNCHANGED <<workload, encrypt, outputs, actions, history, nfaults>>

\* remove(key) is called: updateToken without a locking script
PersonalRemoveCall(p) ==
    /\ CanBegin(p) /\ ScriptAllows("personal.remove")
    /\ \E key \in workload.keys :
          Becomes(p, PersonalStarted(p, "personal.remove", key, "update_list"))
    /\ ncalls' = ncalls + 1
    /\ UNCHANGED <<workload, encrypt, outputs, actions, history, nfaults>>

\* await this.wallet.listOutputs({basket, tags: [key], limit: 1}), the decode
\* and the return
PersonalGetListOutputs(p) ==
    LET c == call[p] IN
    /\ c.pc = "personal_get_list"
    /\ \/ Rejects(p, "listOutputs", <<"listOutputs", Basket, c.key>>)
       \/ /\ \E listing \in Listings(Slot(Basket, c.key)) :
               LET listed == Limited(listing, ListLimit)
                   out == PersonalGetOutcome(listed,
                              [o \in DOMAIN outputs |-> outputs[o].lockingScript],
                              c.defaultValue) IN
               Becomes(p, [c EXCEPT
                   !.pc = out.pc, !.ret = out.ret,
                   !.results = [outputs |-> listed, totalOutputs |-> Len(listing)],
                   !.log = Append(@, <<"listOutputs", Basket, c.key>>)])
          /\ UNCHANGED <<workload, encrypt, outputs, actions, history, ncalls, nfaults>>

\* await pushdrop.lock([Utils.toArray(value, 'utf8')], [1, 'kvstore'], key, 'self')
PersonalSetLock(p) ==
    LET c == call[p] IN
    /\ c.pc = "personal_set_lock"
    /\ \/ Rejects(p, "lock", <<"lock", c.key>>)
       \/ /\ Becomes(p, [c EXCEPT
                !.lockingScript = PushDropLock(<<c.valueAsArray>>, c.key),
                !.pc = "update_list",
                !.log = Append(@, <<"lock", c.key>>)])
          /\ UNCHANGED <<workload, encrypt, outputs, actions, history, ncalls, nfaults>>

\* updateToken was given a newLockingScript
HasNewLockingScript(c) == c.op = "personal.set"

\* updateToken: await wallet.listOutputs({basket, tags: [key], limit: 1}) and
\* the branches on existingUtxos.outputs.length and on newLockingScript
UpdateTokenListOutputs(p) ==
    LET c == call[p] IN
    /\ c.pc = "update_list"
    /\ \/ Rejects(p, "listOutputs", <<"listOutputs", Basket, c.key>>)
       \/ /\ \E listing \in Listings(Slot(Basket, c.key)) :
               LET listed == Limited(listing, ListLimit)
                   found == Len(listed) # 0 IN
               Becomes(p, [c EXCEPT
                   !.results = [outputs |-> listed, totalOutputs |-> Len(listing)],
                   !.pc = IF found THEN "update_draft"
                          ELSE IF HasNewLockingScript(c) THEN "update_create"
                          ELSE "resolved",
                   !.ret = IF ~found /\ ~HasNewLockingScript(c)
                           THEN NotFoundResult ELSE c.ret,
                   !.log = Append(@, <<"listOutputs", Basket, c.key>>)])
          /\ UNCHANGED <<workload, encrypt, outputs, actions, history, ncalls, nfaults>>

\* updateToken: await wallet.createAction({outputs: [token]}); return true
UpdateTokenCreate(p) ==
    LET c == call[p]
        outs == <<UpdateTokenOutput(c.lockingScript, c.key)>> IN
    /\ c.pc = "update_create"
    /\ \/ Rejects(p, "createAction", <<"createAction", 0>>)
       \/ /\ actions' = Append(actions,
                [inputs |-> <<>>, outputs |-> outs, status |-> "sent"])
          /\ outputs' = outputs @@ CreatedOutputs(NewTxid, outs)
          /\ Becomes(p, [c EXCEPT !.pc = "resolved", !.ret = ResolvedTrue,
                                  !.log = Append(@, <<"createAction", NewTxid>>)])
          /\ UNCHANGED <<workload, encrypt, history, ncalls, nfaults>>

\* updateToken: await wallet.createAction({inputBEEF, inputs: [inputToConsume],
\* outputs}) for the signable transaction
UpdateTokenDraft(p) ==
    LET c == call[p]
        outs == IF HasNewLockingScript(c)
                THEN <<UpdateTokenOutput(c.lockingScript, c.key)>> ELSE <<>> IN
    /\ c.pc = "update_draft"
    /\ \/ Rejects(p, "draft", <<"createAction", 0>>)
       \/ /\ actions' = Append(actions, [inputs |-> InputToConsume(c.results),
                                         outputs |-> outs, status |-> "signable"])
          /\ Becomes(p, [c EXCEPT !.reference = NewTxid, !.pc = "update_sign",
                                  !.log = Append(@, <<"createAction", NewTxid>>)])
          /\ UNCHANGED <<workload, encrypt, outputs, history, ncalls, nfaults>>

\* updateToken: await unlocker.sign(tx, 0)
UpdateTokenSign(p) ==
    LET c == call[p] IN
    /\ c.pc = "update_sign"
    /\ \/ Rejects(p, "sign", <<"sign", 0>>)
       \/ /\ Becomes(p, [c EXCEPT
                !.spends = <<[index |-> 0, tx |-> c.reference]>>,
                !.pc = "update_signAction",
                !.log = Append(@, <<"sign", 0>>)])
          /\ UNCHANGED <<workload, encrypt, outputs, actions, history, ncalls, nfaults>>

\* updateToken: await wallet.signAction({reference, spends: {0: ...}}); return
\* true.  An error of the wallet is thrown to the caller.
UpdateTokenSignAction(p) ==
    LET c == call[p]
        entry == <<"signAction", c.reference>> IN
    /\ c.pc = "update_signAction"
    /\ \/ Rejects(p, "signAction", entry)
       \/ /\ ~SignAccepted(c.reference, c.spends, c.key)
          /\ Becomes(p, [c EXCEPT !.pc = "rejected",
                                  !.ret = <<"error", "signAction">>,
                                  !.failed = Append(@, "signAction"),
                                  !.log = Append(@, entry)])
          /\ UNCHANGED <<workload, encrypt, outputs, actions, history, ncalls, nfaults>>
       \/ /\ SignAccepted(c.reference, c.spends, c.key)
          /\ outputs' = Settled(c.reference)
          /\ actions' = [actions EXCEPT ![c.reference].status = "sent"]
          /\ Becomes(p, [c EXCEPT !.pc = "resolved", !.ret = ResolvedTrue,
                                  !.log = Append(@, entry)])
          /\ UNCHANGED <<workload, encrypt, history, ncalls, nfaults>>

StepPersonal(p) ==
    \/ PersonalGetCall(p) \/ PersonalSetCall(p) \/ PersonalRemoveCall(p)
    \/ Return(p)
    \/ PersonalGetListOutputs(p) \/ PersonalSetLock(p)
    \/ UpdateTokenListOutputs(p) \/ UpdateTokenCreate(p) \/ UpdateTokenDraft(p)
    \/ UpdateTokenSign(p) \/ UpdateTokenSignAction(p)

NextPersonal == \E p \in SeqProcs : StepPersonal(p)

SpecPersonal == InitPersonal /\ [][NextPersonal]_vars

\* ---------------------------------------------------------------- Historian
\* (src/unnamed/part_000: the values of a token's ancestry, read from its
\* envelope; interpret awaits nothing but its own decoding, so it is applied
\* in one step)
MaxDepth == 3       \* levels of ancestry an envelope holds, the token included

OwnerKey == "owner"                 \* the key the tokens of the lineage are locked to
OtherKey == "other"
BadSignature == "(malformed)"       \* a signature that is no signature
EmptyText == 0                      \* the value ''
Texts == Values \cup {EmptyText}

\* what pushdrop.decode finds in an outputScript
TokenScripts ==
    {[decodable |-> TRUE, lockingPublicKey |-> OwnerKey, signedBy |-> OwnerKey,
      value |-> v] : v \in Texts}
    \cup {[decodable |-> TRUE, lockingPublicKey |-> OtherKey, signedBy |-> OwnerKey,
           value |-> 1],
          [decodable |-> TRUE, lockingPublicKey |-> OwnerKey, signedBy |-> OtherKey,
           value |-> 1],
          [decodable |-> FALSE, lockingPublicKey |-> OwnerKey,
           signedBy |-> BadSignature, value |-> 1]}

\* inputs absent or {}; inputs given as a string that is not JSON
NoInputs == [form |-> "object", parses |-> TRUE, envelopes |-> <<>>]
MalformedInputs == [form |-> "string", parses |-> FALSE, envelopes |-> <<>>]

\* the envelopes of at most `depth` levels: each has no input, one input (given
\* as an object or as its JSON text), or two inputs without ancestry
RECURSIVE Envelopes(_)
Envelopes(depth) ==
    IF depth = 0 THEN {}
    ELSE LET leaves == {[outputScript |-> t, inputs |-> NoInputs] : t \in TokenScripts}
             ins == {NoInputs, MalformedInputs}
                    \cup {[form |-> f, parses |-> TRUE, envelopes |-> <<e>>] :
                            f \in {"object", "string"}, e \in Envelopes(depth - 1)}
                    \cup (IF depth = 1 THEN {} ELSE
                          {[form |-> "object", parses |-> TRUE, envelopes |-> <<e1, e2>>] :
                            e1 \in leaves, e2 \in leaves})
         IN {[outputScript |-> t, inputs |-> i] : t \in TokenScripts, i \in ins}

\* new Historian(correctOwnerKey, correctSigningKey, validate): the filter is
\* the set of values it accepts, every value when none is given
DefaultValidate == Texts
Historians ==
    {[correctOwnerKey |-> OwnerKey, correctSigningKey |-> OwnerKey, accepts |-> a] :
        a \in {DefaultValidate, {1}}}

NoTokenValue == [defined |-> FALSE, text |-> EmptyText]

\* (variant: the signature is not verified)
DecodeTokenValue_NoSignature(h, inputEnvelope) ==
    LET decoded == inputEnvelope.outputScript IN
    IF ~decoded.decodable THEN NoTokenValue
    ELSE IF decoded.lockingPublicKey # h.correctOwnerKey THEN NoTokenValue
    ELSE [defined |-> TRUE, text |-> decoded.value]

\* decodeTokenValue: fields[1] as text when the script decodes, is locked to
\* correctOwnerKey and its signature verifies under correctSigningKey;
\* undefined otherwise (every error is caught)
DecodeTokenValue(h, inputEnvelope) ==
    LET decoded == inputEnvelope.outputScript IN
    IF ~decoded.decodable THEN NoTokenValue
    ELSE IF decoded.lockingPublicKey # h.correctOwnerKey THEN NoTokenValue
    ELSE IF decoded.signedBy # h.correctSigningKey THEN NoTokenValue
    ELSE [defined |-> TRUE, text |-> decoded.value]

\* tokenValue && ...
Truthy(tokenValue) == tokenValue.defined /\ tokenValue.text # EmptyText

\* this.validate(tokenValue)
Validate(h, tokenValue) == tokenValue.text \in h.accepts

Returned(values) == [thrown |-> "none", values |-> values]
Thrown(name) == [thrown |-> name, values |-> <<>>]

\* JSON.parse(currentEnvelope.inputs) when the inputs are a string
JsonParse(inputs) ==
    IF inputs.form = "string" /\ ~inputs.parses
    THEN Thrown("SyntaxError") ELSE Returned(inputs.envelopes)

\* this.isValid(tokenValue) at depth 0: the class defines no isValid, the call
\* is a TypeError
RootFilter(h, tokenValue) == [thrown |-> "TypeError", keep |-> FALSE]

RECURSIVE Interpret(_, _, _)
RECURSIVE InterpretInputs(_, _, _, _, _)

\* the for loop of interpret from its k-th input on
InterpretInputs(h, envelopes, k, currentDepth, valueHistory) ==
    IF k > Len(envelopes) THEN Returned(valueHistory)
    ELSE LET inputEnvelope == envelopes[k]
             tokenValue == DecodeTokenValue(h, inputEnvelope)
             pushed == IF Truthy(tokenValue) /\ Validate(h, tokenValue)
                       THEN Append(valueHistory, tokenValue.text)
                       ELSE valueHistory
             previousHistory == Interpret(h, inputEnvelope, currentDepth + 1)
         IN IF previousHistory.thrown # "none" THEN previousHistory
            ELSE InterpretInputs(h, envelopes, k + 1, currentDepth,
                                 pushed \o previousHistory.values)

\* interpret(currentEnvelope, currentDepth): what it returns or throws
Interpret(h, currentEnvelope, currentDepth) ==
    LET parsed == JsonParse(currentEnvelope.inputs)
        tokenValue == DecodeTokenValue(h, currentEnvelope)
        root == IF currentDepth = 0 /\ Truthy(tokenValue)
                THEN RootFilter(h, tokenValue)
                ELSE [thrown |-> "none", keep |-> FALSE]
        valueHistory == IF root.keep THEN <<tokenValue.text>> ELSE <<>>
    IN IF parsed.thrown # "none" THEN parsed
       ELSE IF root.thrown # "none" THEN Thrown(root.thrown)
       ELSE IF Len(parsed.values) = 0 THEN Returned(<<>>)
       ELSE InterpretInputs(h, parsed.values, 1, currentDepth, valueHistory)

\* a Historian and the envelope it is given
InitHistory ==
    /\ Constructed({})
    /\ encrypt = FALSE
    /\ \E h \in Historians : \E env \in Envelopes(MaxDepth) :
          workload = [keys |-> {}, calls |-> 1, historian |-> h, envelope |-> env]

\* historian.interpret(envelope, 0) is called
InterpretCall(p) ==
    /\ CanBegin(p)
    /\ Becomes(p, [IdleCall EXCEPT !.pc = "interpret", !.op = "interpret"])
    /\ ncalls' = ncalls + 1
    /\ UNCHANGED <<workload, encrypt, outputs, actions, history, nfaults>>

\* the promise of interpret settles
InterpretSettles(p) ==
    LET c == call[p]
        result == Interpret(workload.historian, workload.envelope, 0) IN
    /\ c.pc = "interpret"
    /\ Becomes(p, [c EXCEPT
          !.pc = IF result.thrown = "none" THEN "resolved" ELSE "rejected",
          !.ret = IF result.thrown = "none" THEN <<"history", result.values>>
                  ELSE <<"error", result.thrown>>])
    /\ UNCHANGED <<workload, encrypt, outputs, actions, history, ncalls, nfaults>>

NextHistory ==
    \E p \in SeqProcs : InterpretCall(p) \/ InterpretSettles(p) \/ Return(p)

SpecHistory == InitHistory /\ [][NextHistory]_vars

\* ---- interpret, one invocation at a time
\* (the recursion of interpret as a stack of invocations: call.fields holds
\* the frames, the last one being the invocation that runs; call.spends holds
\* the values pushed so far, in the order of the pushes; call.i counts the
\* invocations)
Frame(currentEnvelope, currentDepth) ==
    [envelope |-> currentEnvelope, depth |-> currentDepth, k |-> 1]

Top(stack) == stack[Len(stack)]

\* variant: a returning invocation stays on the stack
Popped_Kept(stack) == stack

\* an invocation returns to its caller
Popped(stack) == SubSeq(stack, 1, Len(stack) - 1)

\* the invocation returned: the outermost one settles the promise
InterpretReturns(c, stack, values) ==
    [c EXCEPT !.fields = stack,
              !.spends = values,
              !.pc = IF Len(stack) = 0 THEN "resolved" ELSE "interpret_loop",
              !.ret = IF Len(stack) = 0 THEN <<"history", values>> ELSE c.ret]

InterpretBegins(p) ==
    /\ CanBegin(p)
    /\ Becomes(p, [IdleCall EXCEPT !.pc = "interpret_enter", !.op = "interpret",
                                   !.fields = <<Frame(workload.envelope, 0)>>,
                                   !.i = 1])
    /\ ncalls' = ncalls + 1
    /\ UNCHANGED <<workload, encrypt, outputs, actions, history, nfaults>>

\* lines 20-37 of one invocation: the parse, the depth-0 value, the base case
InterpretEnters(p) ==
    LET c == call[p]
        h == workload.historian
        top == Top(c.fields)
        parsed == JsonParse(top.envelope.inputs)
        tokenValue == DecodeTokenValue(h, top.envelope)
        root == IF top.depth = 0 /\ Truthy(tokenValue)
                THEN RootFilter(h, tokenValue)
                ELSE [thrown |-> "none", keep |-> FALSE]
        thrown == IF parsed.thrown # "none" THEN parsed.thrown ELSE root.thrown IN
    /\ c.pc = "interpret_enter"
    /\ IF thrown # "none"
       THEN Becomes(p, [c EXCEPT !.pc = "rejected", !.ret = <<"error", thrown>>])
       ELSE IF Len(parsed.values) = 0
       THEN Becomes(p, InterpretReturns(c, Popped(c.fields),
                          IF top.depth = 0 THEN <<>> ELSE c.spends))
       ELSE Becomes(p, [c EXCEPT
               !.pc = "interpret_loop",
               !.spends = IF root.keep THEN Append(@, tokenValue.text) ELSE @])
    /\ UNCHANGED <<workload, encrypt, outputs, actions, history, ncalls, nfaults>>

\* lines 39-53: one turn of the loop over the inputs, or the return after it
InterpretLoops(p) ==
    LET c == call[p]
        h == workload.historian
        top == Top(c.fields)
        envelopes == top.envelope.inputs.envelopes IN
    /\ c.pc = "interpret_loop"
    /\ IF top.k > Len(envelopes)
       THEN Becomes(p, InterpretReturns(c, Popped(c.fields), c.spends))
       ELSE LET inputEnvelope == envelopes[top.k]
                tokenValue == DecodeTokenValue(h, inputEnvelope) IN
            Becomes(p, [c EXCEPT
               !.pc = "interpret_enter",
               !.i = @ + 1,
               !.spends = IF Truthy(tokenValue) /\ Validate(h, tokenValue)
                          THEN Append(@, tokenValue.text) ELSE @,
               !.fields = Append([@ EXCEPT ![Len(@)].k = top.k + 1],
                                 Frame(inputEnvelope, top.depth + 1))])
    /\ UNCHANGED <<workload, encrypt, outputs, actions, history, ncalls, nfaults>>

NextTraversal ==
    \E p \in SeqProcs :
        InterpretBegins(p) \/ InterpretEnters(p) \/ InterpretLoops(p) \/ Return(p)

\* every invocation that can take a step eventually takes it
SpecTraversal == InitHistory /\ [][NextTraversal]_vars /\ WF_vars(NextTraversal)

\* ----------------------------------------------------------- the shared store
\* (src/kvstore.js, viewpoint 'localToSelf': the tokens are found through an
\* overlay's lookup and announced to it by submit; the wallet's createAction
\* takes the unlocking scripts and sends the transaction at once)
MaxOverlay == 1     \* tokens of the key the overlay holds at the start

Topic == "kvstore"                  \* defaultConfig.topics
Self == "self"
Peer == "peer"                      \* config.counterparty, when one is given

\* the caller's config: the counterparty and the two routing options
Configs ==
    [counterparty : {Self, Peer},
     sendToCounterparty : BOOLEAN, receiveFromCounterparty : BOOLEAN]

\* getProtectedKey(key, context, config): the HMAC of the key under the
\* counterparty, which is 'self' when searching to send or creating to receive
GetProtectedKey(key, context, config) ==
    <<"hmac", key,
      IF \/ context = "searching" /\ config.sendToCounterparty
         \/ context = "creating" /\ config.receiveFromCounterparty
      THEN Self ELSE config.counterparty>>

\* SDK.getPublicKey({protocolID, keyID: key, counterparty}) of findFromOverlay
CorrectKey(key, config) ==
    <<"key", key, IF config.sendToCounterparty THEN Self ELSE config.counterparty>>

\* the public key pushdrop.create locks the new token to, and signs it with
CreatingKey(key, config) ==
    <<"key", key, IF config.receiveFromCounterparty THEN Self ELSE config.counterparty>>

\* pushdrop.create({fields: [protectedKey, value], protocolID, keyID, counterparty})
PushDropCreate(protectedKey, value, publicKey) ==
    [decodable |-> TRUE, lockingPublicKey |-> publicKey, signedBy |-> publicKey,
     protectedKey |-> protectedKey, value |-> value]

\* the inputs field of an envelope the overlay returns: absent, an object
\* (empty here), or the JSON text of one
AbsentInputs == [form |-> "absent", parses |-> TRUE, envelopes |-> <<>>]
StringInputs == [form |-> "string", parses |-> TRUE, envelopes |-> <<>>]
LeafInputs == {AbsentInputs, NoInputs, StringInputs}

\* the tokens of key k1 an overlay may hold at the start, for the caller's
\* config: a token of the caller, one locked to another key, one with a bad
\* signature, one that does not decode; without ancestry or with one ancestor
OverlayTokens(config) ==
    LET pk == GetProtectedKey("k1", "searching", config)
        good(v) == PushDropCreate(pk, v, CorrectKey("k1", config))
        scripts == {good(v) : v \in Values}
                   \cup {[good(1) EXCEPT !.lockingPublicKey = <<"key", "k1", OtherKey>>],
                         [good(1) EXCEPT !.signedBy = <<"key", "k1", OtherKey>>],
                         [good(1) EXCEPT !.decodable = FALSE]}
        ancestors == {good(1),
                      [good(1) EXCEPT !.lockingPublicKey = <<"key", "k1", OtherKey>>]}
        ins == LeafInputs
               \cup {[form |-> "object", parses |-> TRUE,
                      envelopes |-> <<[outputScript |-> a, inputs |-> l]>>] :
                        a \in ancestors, l \in LeafInputs}
    IN {[outputScript |-> t, inputs |-> i] : t \in scripts, i \in ins}

\* the script decodes, is locked to correctOwnerKey and its signature verifies
\* under correctSigningKey
PassesChecks(script, correctOwnerKey, correctSigningKey) ==
    /\ script.decodable
    /\ script.lockingPublicKey = correctOwnerKey
    /\ script.signedBy = correctSigningKey

\* the while loop of findFromOverlay from currentInput on: it ends only at
\* inputs that are a string; Object.keys of absent inputs is a TypeError; an
\* empty object, or an ancestor that fails a check, is tried again for ever
RECURSIVE WalkInputs(_, _, _, _)
WalkInputs(currentInput, correctOwnerKey, correctSigningKey, valueHistory) ==
    IF currentInput.form = "string" THEN
        [outcome |-> "returns", valueHistory |-> valueHistory]
    ELSE IF currentInput.form = "absent" THEN
        [outcome |-> "TypeError", valueHistory |-> valueHistory]
    ELSE IF Len(currentInput.envelopes) = 0 THEN
        [outcome |-> "loops", valueHistory |-> valueHistory]
    ELSE LET data == currentInput.envelopes[1] IN
        IF PassesChecks(data.outputScript, correctOwnerKey, correctSigningKey)
        THEN WalkInputs(data.inputs, correctOwnerKey, correctSigningKey,
                        Append(valueHistory, data.outputScript.value))
        ELSE [outcome |-> "loops", valueHistory |-> valueHistory]

\* findFromOverlay once the lookup has answered `envelope`: envelope[0] is
\* read whatever the answer holds
FindFromOverlay(envelope, correctOwnerKey, correctSigningKey) ==
    IF Len(envelope) = 0 THEN [outcome |-> "TypeError", valueHistory |-> <<>>]
    ELSE LET root == envelope[1].outputScript IN
        WalkInputs(envelope[1].inputs, correctOwnerKey, correctSigningKey,
                   IF PassesChecks(root, correctOwnerKey, correctSigningKey)
                   THEN <<root.value>> ELSE <<>>)

\* (variant: the two options are not compared)
ConfigRefused_Never(config) == FALSE

\* if (config.sendToCounterparty && config.receiveFromCounterparty) throw
ConfigRefused(config) == config.sendToCounterparty /\ config.receiveFromCounterparty

\* existingTokens.length > 0, where existingTokens is what findFromOverlay
\* returned: the object {envelope, valueHistory}, which has no length
HasExistingTokens(existingTokens) == FALSE

\* an overlay holding up to MaxOverlay tokens of key k1, and a caller's config
InitShared ==
    /\ encrypt = FALSE
    /\ \E config \in Configs : \E n \in 0..MaxOverlay :
       \E held \in [1..n -> OverlayTokens(config)] :
          /\ workload = [keys |-> {"k1"}, calls |-> MaxCalls, config |-> config]
          /\ outputs =
               [o \in {Outpoint(j, 0) : j \in 1..n} |->
                  [basket |-> Topic,
                   tags |-> {held[o[1]].outputScript.protectedKey},
                   lockingScript |-> held[o[1]].outputScript,
                   inputs |-> held[o[1]].inputs,
                   spent |-> FALSE]]
          /\ actions =
               [j \in 1..n |->
                  [inputs |-> <<>>, outputs |-> <<held[j].outputScript>>,
                   status |-> "sent"]]
    /\ call = [p \in Procs |-> IdleCall]
    /\ history = <<>>
    /\ ncalls = 0
    /\ nfaults = 0

\* if (config.receiveFromCountarparty) throw: the option is misspelt, the
\* property read is undefined
ReceiveRefused(config) == FALSE

\* set(key, value, config) is called; the config is checked before any await
SharedSetCall(p) ==
    /\ CanBegin(p)
    /\ \E key \in workload.keys : \E value \in Values :
         LET c == [IdleCall EXCEPT
                     !.op = "shared.set", !.key = key, !.value = value,
                     !.slot0 = Slot(Topic, GetProtectedKey(key, "searching",
                                                           workload.config)),
                     !.before = outputs, !.actions0 = actions] IN
         Becomes(p, IF ConfigRefused(workload.config)
                    THEN [c EXCEPT !.pc = "rejected",
                             !.ret = <<"error", "ERR_NO_SEND_AND_RECEIVE_AT_SAME_TIME">>]
                    ELSE [c EXCEPT !.pc = "shared_hmac"])
    /\ ncalls' = ncalls + 1
    /\ UNCHANGED <<workload, encrypt, outputs, actions, history, nfaults>>

\* const protectedKey = await getProtectedKey(key, 'searching', config)
SharedSetHmac(p) ==
    LET c == call[p] IN
    /\ c.pc = "shared_hmac"
    /\ \/ Rejects(p, "createHmac", <<"createHmac", c.key>>)
       \/ /\ Becomes(p, [c EXCEPT !.pc = "shared_lookup",
                                  !.log = Append(@, <<"createHmac", c.key>>)])
          /\ UNCHANGED <<workload, encrypt, outputs, actions, history, ncalls, nfaults>>

\* findFromOverlay: await client.request(`${confederacyHost}/lookup`) and
\* result.json(): the envelopes of the unspent tokens under the protected key
FindFromOverlayLookup(p) ==
    LET c == call[p]
        protectedKey == GetProtectedKey(c.key, "searching", workload.config) IN
    /\ c.pc = "shared_lookup"
    /\ \/ Rejects(p, "lookup", <<"lookup", protectedKey>>)
       \/ /\ \E listing \in Listings(Slot(Topic, protectedKey)) :
               Becomes(p, [c EXCEPT
                   !.results = [outputs |-> listing, totalOutputs |-> Len(listing)],
                   !.pc = "shared_verify",
                   !.log = Append(@, <<"lookup", protectedKey>>)])
          /\ UNCHANGED <<workload, encrypt, outputs, actions, history, ncalls, nfaults>>

\* findFromOverlay: await SDK.getPublicKey (twice), then the decoding of the
\* current token and the loop over its ancestry
FindFromOverlayVerify(p) ==
    LET c == call[p]
        envelope == [k \in 1..Len(c.results.outputs) |->
                        [outputScript |-> outputs[c.results.outputs[k]].lockingScript,
                         inputs |-> outputs[c.results.outputs[k]].inputs]]
        found == FindFromOverlay(envelope, CorrectKey(c.key, workload.config),
                                 CorrectKey(c.key, workload.config)) IN
    /\ c.pc = "shared_verify"
    /\ \/ Rejects(p, "getPublicKey", <<"getPublicKey", c.key>>)
       \/ /\ Becomes(p, [c EXCEPT
                !.pc = CASE found.outcome = "returns" -> "shared_create"
                         [] found.outcome = "loops" -> "shared_loop"
                         [] OTHER -> "rejected",
                !.ret = IF found.outcome = "TypeError"
                        THEN <<"error", "TypeError">> ELSE c.ret,
                !.fields = found.valueHistory,
                !.log = Append(@, <<"getPublicKey", c.key>>)])
          /\ UNCHANGED <<workload, encrypt, outputs, actions, history, ncalls, nfaults>>

\* findFromOverlay: a turn of the while loop that changes nothing
FindFromOverlayLoop(p) ==
    /\ call[p].pc = "shared_loop"
    /\ UNCHANGED vars

\* set: the branch on existingTokens, pushdrop.redeem and pushdrop.create, and
\* await SDK.createAction({inputs, outputs}), which sends the transaction
SharedSetCreateAction(p) ==
    LET c == call[p]
        existingTokens == [envelope |-> c.results.outputs, valueHistory |-> c.fields]
        spending == HasExistingTokens(existingTokens) /\ Len(c.results.outputs) > 0
        ins == IF spending THEN <<c.results.outputs[Len(c.results.outputs)]>>
               ELSE <<>>
        script == PushDropCreate(GetProtectedKey(c.key, "creating", workload.config),
                                 c.value, CreatingKey(c.key, workload.config))
        refused == ~spending /\ ReceiveRefused(workload.config) IN
    /\ c.pc = "shared_create"
    /\ \/ Rejects(p, "createAction", <<"createAction", 0>>)
       \/ /\ refused
          /\ Becomes(p, [c EXCEPT !.pc = "rejected",
                                  !.ret = <<"error", "ERR_NO_TOKEN_FROM_COUNTERPARTY">>])
          /\ UNCHANGED <<workload, encrypt, outputs, actions, history, ncalls, nfaults>>
       \/ /\ ~refused
          /\ \A k \in DOMAIN ins : ~outputs[ins[k]].spent
          /\ actions' = Append(actions,
                [inputs |-> ins, outputs |-> <<script>>, status |-> "sent"])
          /\ outputs' =
                [o \in DOMAIN outputs \cup {Outpoint(NewTxid, 0)} |->
                    IF o = Outpoint(NewTxid, 0)
                    THEN [basket |-> NoBasket, tags |-> {}, lockingScript |-> script,
                          inputs |-> AbsentInputs, spent |-> FALSE]
                    ELSE IF o \in Range(ins) THEN [outputs[o] EXCEPT !.spent = TRUE]
                    ELSE outputs[o]]
          /\ Becomes(p, [c EXCEPT !.pc = "shared_submit", !.reference = NewTxid,
                                  !.lockingScript = script,
                                  !.log = Append(@, <<"createAction", NewTxid>>)])
          /\ UNCHANGED <<workload, encrypt, history, ncalls, nfaults>>

\* return await submitToOverlay(action, config): the overlay admits the new
\* token under its protected key; how it will present the token's inputs
\* (absent, an object, a JSON text) is the overlay's choice
SharedSetSubmit(p) ==
    LET c == call[p]
        o == Outpoint(c.reference, 0) IN
    /\ c.pc = "shared_submit"
    /\ \/ Rejects(p, "submit", <<"submit", c.reference>>)
       \/ /\ \E presented \in LeafInputs :
               outputs' = [outputs EXCEPT
                   ![o] = [@ EXCEPT !.basket = Topic,
                                    !.tags = {c.lockingScript.protectedKey},
                                    !.inputs = presented]]
          /\ Becomes(p, [c EXCEPT !.pc = "resolved",
                                  !.ret = <<"submitted", c.reference>>,
                                  !.log = Append(@, <<"submit", c.reference>>)])
          /\ UNCHANGED <<workload, encrypt, actions, history, ncalls, nfaults>>

StepShared(p) ==
    \/ SharedSetCall(p) \/ Return(p)
    \/ SharedSetHmac(p) \/ FindFromOverlayLookup(p) \/ FindFromOverlayVerify(p)
    \/ FindFromOverlayLoop(p)
    \/ SharedSetCreateAction(p) \/ SharedSetSubmit(p)

NextShared == \E p \in SeqProcs : StepShared(p)

SpecShared == InitShared /\ [][NextShared]_vars

\* ------------------------------------------------------ reading a behaviour
Settled_(c) == c.pc \in {"resolved", "rejected"}

\* the call met no failure of a collaborator
NoFailure(c) == c.failed = <<>>

\* the consolidation of the call failed: the catch block was entered
ConsolidationFailed(c) ==
    \E k \in DOMAIN c.failed : c.failed[k] \in {"draft", "sign", "signAction"}

\* the positions of the log at which the named wallet method was called
CallsOf(c, name) == {k \in DOMAIN c.log : c.log[k][1] = name}

RelinquishLog(c) == SelectSeq(c.log, LAMBDA e : e[1] = "relinquishOutput")

\* a relinquishOutput for each output of the snapshot, in listed order
RelinquishExpected(c) ==
    [k \in 1..Len(c.results.outputs) |->
        <<"relinquishOutput", c.results.outputs[k], Context>>]

IsPrefix(s, t) == Len(s) <= Len(t) /\ \A k \in 1..Len(s) : s[k] = t[k]

\* the catch block's loop is over and none of its calls threw
RelinquishStepDone(c) ==
    /\ ConsolidationFailed(c)
    /\ c.pc \notin {"set_relinquish", "remove_relinquish"}
    /\ \A k \in DOMAIN c.failed : c.failed[k] # "relinquishOutput"

\* the value a reader of this store recovers from a locking script
TokenValue(script, key) ==
    IF ~script.decodable \/ Len(script.fields) # 1 THEN Garbled
    ELSE IF ~encrypt THEN ToUTF8(script.fields[1])
    ELSE IF WalletDecryptOk(script.fields[1], key)
         THEN ToUTF8(WalletDecrypt(script.fields[1], key))
         ELSE Garbled

LastCall == history[Len(history)]

\* -------------------------------------------------------------------- claims
\* C1: on a slot with no live token, after a set(key, v) without collaborator
\* failure the slot (basket = context, tag = key) holds exactly one live token,
\* and a get(key) that follows returns v.
C1_SetThenGet ==
    \A p \in Procs : LET c == call[p] IN
    /\ (c.op = "set" /\ c.pc = "resolved" /\ NoFailure(c) /\ c.slot0 = {})
          => Cardinality(Slot(Context, c.key)) = 1
    /\ (/\ c.op = "get" /\ Settled_(c) /\ NoFailure(c)
        /\ Len(history) >= 1
        /\ LastCall.op = "set" /\ LastCall.key = c.key
        /\ LastCall.pc = "resolved" /\ NoFailure(LastCall)
        /\ LastCall.slot0 = {})
          => c.ret = <<"value", LastCall.value>>

\* C2: after set(key, v1) and then set(key, v2), both without collaborator
\* failure, get(key) returns v2, the first set's token is spent as an input of
\* the second set's transaction, and the second set's token is the only live
\* token of the slot.
C2_SetSetGet ==
    \A p \in Procs : LET c == call[p] IN
    (/\ c.op = "get" /\ Settled_(c) /\ NoFailure(c)
     /\ Len(history) >= 2
     /\ \A k \in {Len(history) - 1, Len(history)} :
           /\ history[k].op = "set" /\ history[k].key = c.key
           /\ history[k].pc = "resolved" /\ NoFailure(history[k]))
      => LET s1 == history[Len(history) - 1]
             s2 == history[Len(history)] IN
         /\ c.ret = <<"value", s2.value>>
         /\ outputs[Outpoint(s1.ret[2], 0)].spent
         /\ Outpoint(s1.ret[2], 0) \in Range(actions[s2.ret[2]].inputs)
         /\ Slot(Context, c.key) = {Outpoint(s2.ret[2], 0)}

\* C3: a set without collaborator failure on a slot holding N >= 2 live tokens
\* spends all N as the inputs of one action that has exactly one output, and
\* afterwards the slot has exactly one live token.
C3_Collapse ==
    \A p \in Procs : LET c == call[p] IN
    (c.op = "set" /\ c.pc = "resolved" /\ NoFailure(c) /\ Cardinality(c.slot0) >= 2)
      => /\ Range(actions[c.ret[2]].inputs) = c.slot0
         /\ Len(actions[c.ret[2]].inputs) = Cardinality(c.slot0)
         /\ Len(actions[c.ret[2]].outputs) = 1
         /\ \A o \in c.slot0 : outputs[o].spent
         /\ Cardinality(Slot(Context, c.key)) = 1

\* C4: get(key, d) on a slot with no live token returns d (undefined when no
\* default is passed) and calls neither createAction, signAction nor
\* relinquishOutput; the wallet's outputs are as before the call.
C4_GetDefault ==
    \A p \in Procs : LET c == call[p] IN
    (c.op = "get" /\ Settled_(c) /\ NoFailure(c) /\ c.slot0 = {})
      => /\ c.pc = "resolved"
         /\ c.ret = c.defaultValue
         /\ CallsOf(c, "createAction") = {}
         /\ CallsOf(c, "signAction") = {}
         /\ CallsOf(c, "relinquishOutput") = {}
         /\ outputs = c.before

C4_Witness ==
    \E p \in Procs : LET c == call[p] IN
    /\ c.op = "get" /\ c.pc = "resolved" /\ c.slot0 = {}
    /\ c.defaultValue = <<"value", DefaultText>> /\ c.ret = c.defaultValue

\* C5: once listOutputs has answered a get on a slot with more than one live
\* token, the get has failed with the 'Multiple tokens found' error, it returns
\* no token's value, and every token of the slot is still unspent and in the
\* basket.
C5_GetAmbiguous ==
    \A p \in Procs : LET c == call[p] IN
    (c.op = "get" /\ c.pc # "get_list" /\ NoFailure(c) /\ Cardinality(c.slot0) > 1)
      => /\ c.pc = "rejected"
         /\ c.ret = <<"error", "Multiple tokens found for this key">>
         /\ \A o \in c.slot0 : ~outputs[o].spent /\ outputs[o].basket = Context
         /\ Slot(Context, c.key) = c.slot0

C5_Witness ==
    \E p \in Procs : LET c == call[p] IN
    /\ c.op = "get" /\ c.pc = "rejected" /\ NoFailure(c)
    /\ Cardinality(c.slot0) = 2
    /\ \A o \in c.slot0 : TokenValue(outputs[o].lockingScript, c.key) \in Values

\* C6: after a remove(key) without collaborator failure on a slot with one or
\* more live tokens, the slot has no live token: every located token is an
\* input of one single action, and that action creates no output.
C6_RemoveSpendsAll ==
    \A p \in Procs : LET c == call[p] IN
    (c.op = "remove" /\ c.pc = "resolved" /\ NoFailure(c) /\ c.slot0 # {})
      => /\ Slot(Context, c.key) = {}
         /\ Cardinality(CallsOf(c, "createAction")) = 1
         /\ Cardinality(CallsOf(c, "signAction")) = 1
         /\ c.ret[1] = "outpoint"
         /\ actions[c.ret[2]].status = "sent"
         /\ Range(actions[c.ret[2]].inputs) = c.slot0
         /\ Len(actions[c.ret[2]].inputs) = Cardinality(c.slot0)
         /\ actions[c.ret[2]].outputs = <<>>
         /\ \A o \in c.slot0 : outputs[o].spent
         /\ DOMAIN outputs = DOMAIN c.before

C6_Witness ==
    \E p \in Procs : LET c == call[p] IN
    /\ c.op = "remove" /\ c.pc = "resolved" /\ NoFailure(c)
    /\ Cardinality(c.slot0) = 2
    /\ \A o \in c.slot0 : outputs[o].spent

\* C7: remove(key) on a slot with no live token resolves to undefined, raises
\* no error and changes nothing: it calls no createAction, no signAction and no
\* relinquishOutput, and the wallet's outputs and actions are as before.
C7_RemoveNothing ==
    \A p \in Procs : LET c == call[p] IN
    (c.op = "remove" /\ c.pc # "remove_list" /\ NoFailure(c) /\ c.slot0 = {})
      => /\ c.pc = "resolved"
         /\ c.ret = Undefined
         /\ c.log = <<<<"listOutputs", Context, c.key>>>>
         /\ outputs = c.before
         /\ actions = c.actions0

C7_Witness ==
    \E p \in Procs : LET c == call[p] IN
    /\ c.op = "remove" /\ c.pc = "resolved" /\ c.slot0 = {}
    /\ c.ret = Undefined
    /\ \E o \in DOMAIN outputs : outputs[o].basket = Context /\ ~outputs[o].spent

\* C8: when the consolidation of a set or a remove fails, relinquishOutput is
\* called once for each output of the located snapshot, in listed order, with
\* basket = context, and for no other output; a call whose consolidation did
\* not fail relinquishes nothing.
C8_RelinquishEach ==
    \A p \in Procs : LET c == call[p] IN
    /\ IsPrefix(RelinquishLog(c), RelinquishExpected(c))
    /\ RelinquishStepDone(c) => RelinquishLog(c) = RelinquishExpected(c)
    /\ RelinquishLog(c) # <<>> => ConsolidationFailed(c)

C8_Witness ==
    \E p \in Procs : LET c == call[p] IN
    /\ c.op = "set" /\ c.pc = "resolved"
    /\ c.failed = <<"signAction">>
    /\ Len(c.results.outputs) = 2
    /\ Len(RelinquishLog(c)) = 2
    /\ \A o \in Range(c.results.outputs) :
          outputs[o].basket = NoBasket /\ ~outputs[o].spent

\* C9 as stated: after a failed consolidation, set issues no creation action
\* once it has relinquished, and leaves no new token made by the failed call.
C9_NoCreationAfterFailure ==
    \A p \in Procs : LET c == call[p] IN
    (c.op = "set" /\ Settled_(c) /\ ConsolidationFailed(c))
      => /\ \A k \in CallsOf(c, "createAction") :
               \A r \in CallsOf(c, "relinquishOutput") : k < r
         /\ DOMAIN outputs = DOMAIN c.before

\* C9 as amended: after a failed consolidation, set does not attempt the
\* consolidation again (one listOutputs, at most one signable action and one
\* signAction); once it has relinquished it issues exactly one creation action,
\* with no inputs and one output, which leaves one new token made by the call.
C9_OneCreationNoRetry ==
    \A p \in Procs : LET c == call[p] IN
    (c.op = "set" /\ ConsolidationFailed(c))
      => LET creations == CallsOf(c, "createAction")
             relinquishes == CallsOf(c, "relinquishOutput")
             fresh == {k \in creations : \E r \in relinquishes : r < k} IN
         /\ Cardinality(CallsOf(c, "listOutputs")) = 1
         /\ Cardinality(CallsOf(c, "signAction")) <= 1
         /\ Cardinality(creations \ fresh) = 1
         /\ Cardinality(fresh) <= 1
         /\ c.pc = "resolved" =>
               /\ fresh = {Len(c.log)}
               /\ actions[c.log[Len(c.log)][2]].inputs = <<>>
               /\ Len(actions[c.log[Len(c.log)][2]].outputs) = 1
               /\ DOMAIN outputs \ DOMAIN c.before
                    = {Outpoint(c.log[Len(c.log)][2], 0)}

C9_Witness ==
    \E p \in Procs : LET c == call[p] IN
    /\ c.op = "set" /\ c.pc = "resolved" /\ c.failed = <<"signAction">>
    /\ Len(c.results.outputs) = 1
    /\ Cardinality(DOMAIN outputs \ DOMAIN c.before) = 1

\* C10: when signing the update/collapse transaction fails, set relinquishes
\* the original outputs and then starts a new chain: it creates a token with no
\* inputs that carries the new value, and resolves to '<txid>.0' of that
\* creation.
C10_NewChain ==
    \A p \in Procs : LET c == call[p] IN
    (c.op = "set" /\ c.pc = "resolved" /\ ConsolidationFailed(c))
      => LET last == c.log[Len(c.log)] IN
         /\ last[1] = "createAction"
         /\ c.ret = <<"outpoint", last[2], 0>>
         /\ actions[last[2]].inputs = <<>>
         /\ actions[last[2]].status = "sent"
         /\ Outpoint(last[2], 0) \in DOMAIN outputs
         /\ ~outputs[Outpoint(last[2], 0)].spent
         /\ TokenValue(outputs[Outpoint(last[2], 0)].lockingScript, c.key) = c.value
         /\ \A o \in Range(c.results.outputs) :
               outputs[o].basket # Context /\ ~outputs[o].spent

C10_Witness ==
    \E p \in Procs : LET c == call[p] IN
    /\ c.op = "set" /\ c.pc = "resolved" /\ c.failed = <<"sign">>
    /\ c.ret[1] = "outpoint"
    /\ TokenValue(outputs[Outpoint(c.ret[2], 0)].lockingScript, c.key) = c.value
    /\ c.results.outputs # <<>>

\* the only failures the call met are failures of unlocker.sign or signAction
SigningFailed(c) ==
    /\ c.failed # <<>>
    /\ \A k \in DOMAIN c.failed : c.failed[k] \in {"sign", "signAction"}

\* C11: a failure of signing or of submission during a consolidation is never
\* the error set or remove ends with: a call that met only such failures does
\* not reject; once settled, remove has resolved to undefined and set has
\* resolved.
C11_SigningFailureSwallowed ==
    \A p \in Procs : LET c == call[p] IN
    /\ (c.op \in {"set", "remove"} /\ c.pc = "rejected")
          => c.ret \notin {<<"error", "sign">>, <<"error", "signAction">>}
    /\ (c.op \in {"set", "remove"} /\ SigningFailed(c))
          => /\ c.pc # "rejected"
             /\ (Settled_(c) /\ c.op = "remove") => c.ret = Undefined
             /\ (Settled_(c) /\ c.op = "set") => c.ret[1] = "outpoint"

C11_Witness ==
    \A op \in {"set", "remove"} : \E k \in DOMAIN history : LET c == history[k] IN
    /\ c.op = op /\ c.pc = "resolved" /\ SigningFailed(c)
    /\ c.results.outputs # <<>>


\* the collaborator calls made before the ledger is changed: the draft is the
\* createAction that only returns the signable transaction
PreMutationPoints == {"encrypt", "lock", "listOutputs", "draft"}

\* C12: in set and remove, when the first collaborator to fail is encrypt, lock,
\* listOutputs or the createAction that drafts the signable transaction, the
\* call rejects with that error and no relinquishOutput is made.
C12_PreMutationSurfaced ==
    \A p \in Procs : LET c == call[p] IN
    (/\ c.op \in {"set", "remove"}
     /\ c.failed # <<>>
     /\ c.failed[1] \in PreMutationPoints)
      => /\ c.pc = "rejected"
         /\ c.ret = <<"error", c.failed[1]>>
         /\ RelinquishLog(c) = <<>>
         /\ \A o \in c.slot0 : outputs[o].basket = Context

\* the script does not decode, or decodes to a number of fields other than 1
Corrupt(script) == ~script.decodable \/ Len(script.fields) # 1

\* C13: once listOutputs has answered a get on a slot whose only live token is
\* corrupt, the get has failed with the 'Invalid value found' error naming the
\* token's outpoint and the basket; get made no other wallet call, and the
\* wallet's outputs and actions are as before the call.
C13_GetCorrupt ==
    \A p \in Procs : LET c == call[p] IN
    (/\ c.op = "get" /\ c.pc # "get_list" /\ NoFailure(c)
     /\ Cardinality(c.slot0) = 1
     /\ \A o \in c.slot0 : Corrupt(c.before[o].lockingScript))
      => /\ c.pc = "rejected"
         /\ \A o \in c.slot0 : c.ret = <<"error", "Invalid value found", o, Context>>
         /\ c.log = <<<<"listOutputs", Context, c.key>>>>
         /\ outputs = c.before
         /\ actions = c.actions0

C13_Witness ==
    \E p \in Procs : LET c == call[p] IN
    /\ c.op = "get" /\ c.pc = "rejected" /\ Cardinality(c.slot0) = 1
    /\ c.ret[2] = "Invalid value found"
    /\ \A o \in c.slot0 :
          /\ Len(c.before[o].lockingScript.fields) = 2
          /\ ~outputs[o].spent /\ outputs[o].basket = Context

\* C17: a set without collaborator failure on a slot with no live token makes
\* exactly one createAction, with one output and no inputs, makes no signAction
\* and no relinquishOutput, and resolves to '<txid>.0' of that action.
C17_SetCreatesOnce ==
    \A p \in Procs : LET c == call[p] IN
    (c.op = "set" /\ c.pc = "resolved" /\ NoFailure(c) /\ c.slot0 = {})
      => LET last == c.log[Len(c.log)] IN
         /\ CallsOf(c, "createAction") = {Len(c.log)}
         /\ CallsOf(c, "signAction") = {}
         /\ CallsOf(c, "relinquishOutput") = {}
         /\ Len(actions) = Len(c.actions0) + 1
         /\ last[2] = Len(actions)
         /\ actions[last[2]].inputs = <<>>
         /\ Len(actions[last[2]].outputs) = 1
         /\ actions[last[2]].outputs[1].lockingScript = c.lockingScript
         /\ c.ret = OutpointString(last[2])

C17_Witness ==
    \E p \in Procs : LET c == call[p] IN
    /\ c.op = "set" /\ c.pc = "resolved" /\ NoFailure(c) /\ c.slot0 = {}
    /\ c.ret = OutpointString(Len(actions))
    /\ Outpoint(Len(actions), 0) \in DOMAIN outputs \ DOMAIN c.before

\* C18: a KVStorePersonal set or remove without collaborator failure on a slot
\* holding several live tokens has all of them as the inputs of its one action,
\* and none of them is live afterwards.
C18_AllConsumed ==
    \A p \in Procs : LET c == call[p] IN
    (/\ c.op \in {"personal.set", "personal.remove"}
     /\ c.pc = "resolved" /\ NoFailure(c)
     /\ Cardinality(c.slot0) >= 2)
      => /\ Range(actions[c.reference].inputs) = c.slot0
         /\ \A o \in c.slot0 : outputs[o].spent

\* C19: on a KVStorePersonal over an empty basket, when the six calls set(k, v),
\* get(k), set(k, w), get(k), remove(k), get(k, d) have been made in that order
\* and none met a collaborator failure, the gets returned v, then w, then d.
C19_ReadmeScenario ==
    (/\ Len(workload.script) # 0
     /\ Len(history) = Len(ReadmeScript)
     /\ \A k \in DOMAIN history : NoFailure(history[k]))
      => /\ \A k \in DOMAIN history :
               history[k].op = ReadmeScript[k] /\ history[k].pc = "resolved"
         /\ history[2].ret = <<"value", history[1].value>>
         /\ history[4].ret = <<"value", history[3].value>>
         /\ history[6].ret = history[6].defaultValue

C19_Witness ==
    /\ Len(workload.script) # 0
    /\ Len(history) = Len(ReadmeScript)
    /\ \A k \in DOMAIN history : NoFailure(history[k])
    /\ history[1].value = 1 /\ history[2].ret = <<"value", 1>>
    /\ history[3].value = 2 /\ history[4].ret = <<"value", 2>>
    /\ history[6].defaultValue = <<"value", DefaultText>>
    /\ history[6].ret = <<"value", DefaultText>>

\* C20: KVStorePersonal.remove resolves to true when a token of the key was
\* found and spent, and to false, with no action created, when none was found;
\* KVStorePersonal.set resolves to true once a token with the value is in the
\* slot; a call that met a failure rejects with that error.
C20_UpdateResults ==
    \A p \in Procs : LET c == call[p] IN
    /\ (c.op = "personal.remove" /\ Settled_(c) /\ NoFailure(c) /\ c.slot0 = {})
          => /\ c.pc = "resolved" /\ c.ret = ResolvedFalse
             /\ actions = c.actions0 /\ outputs = c.before
    /\ (c.op = "personal.remove" /\ c.pc = "resolved" /\ c.slot0 # {})
          => /\ c.ret = ResolvedTrue
             /\ actions[c.reference].status = "sent"
             /\ \E o \in c.slot0 :
                   outputs[o].spent /\ o \in Range(actions[c.reference].inputs)
    /\ (c.op = "personal.set" /\ c.pc = "resolved")
          => /\ c.ret = ResolvedTrue
             /\ \E o \in Slot(Basket, c.key) \ DOMAIN c.before :
                   TokenValue(outputs[o].lockingScript, c.key) = c.value
    /\ (c.op \in {"personal.set", "personal.remove"} /\ c.failed # <<>>)
          => c.pc = "rejected" /\ c.ret = <<"error", c.failed[1]>>

C20_Witness ==
    \E j, k \in DOMAIN history :
       /\ j < k
       /\ history[j].op = "personal.remove" /\ history[j].ret = ResolvedTrue
       /\ history[j].slot0 # {}
       /\ history[k].op = "personal.remove" /\ history[k].ret = ResolvedFalse

\* the script passes both checks of the verification
Verified(h, script) ==
    /\ script.decodable
    /\ script.lockingPublicKey = h.correctOwnerKey
    /\ script.signedBy = h.correctSigningKey

\* the scripts of an envelope, the token's first, then each input's in turn
RECURSIVE NodesOf(_)
RECURSIVE NodesOfAll(_)
NodesOfAll(envelopes) ==
    IF Len(envelopes) = 0 THEN <<>>
    ELSE NodesOf(Head(envelopes)) \o NodesOfAll(Tail(envelopes))

NodesOf(envelope) == <<envelope.outputScript>> \o NodesOfAll(envelope.inputs.envelopes)

\* every token of the envelope has at most one input, and the inputs parse
RECURSIVE IsChain(_)
IsChain(envelope) ==
    /\ envelope.inputs.parses
    /\ Len(envelope.inputs.envelopes) <= 1
    /\ Len(envelope.inputs.envelopes) = 1 => IsChain(envelope.inputs.envelopes[1])

\* a token of the expected owner with a value that was written
Written(script) ==
    /\ script.decodable
    /\ script.lockingPublicKey = OwnerKey /\ script.signedBy = OwnerKey
    /\ script.value \in Values

ValuesOf(scripts) == [i \in 1..Len(scripts) |-> scripts[i].value]

Count(seq, v) == Cardinality({i \in DOMAIN seq : seq[i] = v})

\* C14: when the envelope is the one of the last of three tokens written in
\* turn by the expected owner with values v1, v2, v3, interpret(envelope, 0) of
\* a Historian with the default filter returns <<v3, v2, v1>>.
C14_HistoryRoundTrip ==
    \A p \in Procs : LET c == call[p]
                         nodes == NodesOf(workload.envelope) IN
    (/\ c.op = "interpret" /\ Settled_(c)
     /\ workload.historian.accepts = DefaultValidate
     /\ IsChain(workload.envelope)
     /\ Len(nodes) = 3
     /\ \A i \in 1..3 : Written(nodes[i]))
      => c.pc = "resolved" /\ c.ret[2] = ValuesOf(nodes)

\* C15: when one ancestor of a chain is locked to another key than the expected
\* owner's and every other token was written by the expected owner,
\* interpret(envelope, 0) raises no error and returns the values of all the
\* other tokens, those behind the rejected ancestor included.
C15_WrongOwnerDropped ==
    \A p \in Procs : LET c == call[p]
                         nodes == NodesOf(workload.envelope) IN
    (/\ c.op = "interpret" /\ Settled_(c)
     /\ workload.historian.accepts = DefaultValidate
     /\ IsChain(workload.envelope)
     /\ \E j \in 2..Len(nodes) :
           /\ nodes[j].decodable /\ nodes[j].lockingPublicKey # OwnerKey
           /\ \A i \in DOMAIN nodes : i # j => Written(nodes[i]))
      => c.pc = "resolved" /\ c.ret[2] = ValuesOf(SelectSeq(nodes, Written))

\* C16: every value of a history that interpret returned is the value of a
\* token of the envelope that is locked to correctOwnerKey and whose signature
\* verifies under correctSigningKey, each such token giving at most one value;
\* a token failing either check gives none.
C16_OnlyVerifiedValues ==
    \A p \in Procs : LET c == call[p]
                         nodes == NodesOf(workload.envelope) IN
    (c.op = "interpret" /\ c.pc = "resolved")
      => \A v \in Texts :
            Count(c.ret[2], v) <=
               Cardinality({i \in DOMAIN nodes :
                   Verified(workload.historian, nodes[i]) /\ nodes[i].value = v})

C16_Witness ==
    \E p \in Procs : LET c == call[p]
                         nodes == NodesOf(workload.envelope) IN
    /\ c.op = "interpret" /\ c.pc = "resolved"
    /\ Len(c.ret[2]) >= 1
    /\ \E i \in DOMAIN nodes :
          nodes[i].decodable /\ nodes[i].lockingPublicKey # OwnerKey
    /\ \E i \in DOMAIN nodes :
          nodes[i].decodable /\ nodes[i].signedBy # OwnerKey

\* C21: what localKVStore returns is an outpoint '<txid>.<index>': after a set
\* without collaborator failure it names an output that exists and is the one
\* live token of the slot; remove returns this form when it spent tokens, and
\* undefined when the slot had none.
C21_OutpointIdentity ==
    \A p \in Procs : LET c == call[p] IN
    /\ (c.op = "set" /\ c.pc = "resolved" /\ NoFailure(c))
          => /\ c.ret[1] = "outpoint"
             /\ Outpoint(c.ret[2], c.ret[3]) \in DOMAIN outputs
             /\ Slot(Context, c.key) = {Outpoint(c.ret[2], c.ret[3])}
    /\ (c.op = "remove" /\ c.pc = "resolved" /\ NoFailure(c) /\ c.slot0 # {})
          => c.ret[1] = "outpoint"
    /\ (c.op = "remove" /\ c.pc = "resolved" /\ NoFailure(c) /\ c.slot0 = {})
          => c.ret = Undefined

\* C22: a remove that spent the slot's tokens resolves to the txid that
\* signAction returned for the removal transaction, and to nothing more.
C22_RemoveReturnsTxid ==
    \A p \in Procs : LET c == call[p] IN
    (c.op = "remove" /\ c.pc = "resolved" /\ NoFailure(c) /\ c.slot0 # {})
      => /\ c.log[Len(c.log)] = <<"signAction", c.reference>>
         /\ c.ret = <<"txid", c.reference>>

\* C23: a shared-store set whose config has both sendToCounterparty and
\* receiveFromCounterparty fails with ERR_NO_SEND_AND_RECEIVE_AT_SAME_TIME and
\* has made no call at all: no createHmac, no lookup, no createAction, no
\* submit; the overlay's tokens and the wallet's actions are as before.
C23_ConfigRefusedFirst ==
    \A p \in Procs : LET c == call[p] IN
    (/\ c.op = "shared.set"
     /\ workload.config.sendToCounterparty
     /\ workload.config.receiveFromCounterparty)
      => /\ c.pc = "rejected"
         /\ c.ret = <<"error", "ERR_NO_SEND_AND_RECEIVE_AT_SAME_TIME">>
         /\ c.log = <<>>
         /\ outputs = c.before
         /\ actions = c.actions0

C23_Witness ==
    \E p \in Procs : LET c == call[p] IN
    /\ c.op = "shared.set" /\ c.pc = "rejected"
    /\ c.ret = <<"error", "ERR_NO_SEND_AND_RECEIVE_AT_SAME_TIME">>
    /\ workload.config.counterparty = Peer
    /\ c.slot0 # {}

\* C24: after a shared-store set without collaborator failure, under a config
\* with neither routing option, on a key that had a live token, that token is
\* spent as an input of the action that created the new token, and the key has
\* a single live token.
C24_SharedOverwrite ==
    \A p \in Procs : LET c == call[p] IN
    (/\ c.op = "shared.set" /\ c.pc = "resolved" /\ NoFailure(c)
     /\ ~workload.config.sendToCounterparty
     /\ ~workload.config.receiveFromCounterparty
     /\ c.slot0 # {})
      => /\ \A o \in c.slot0 :
               outputs[o].spent /\ o \in Range(actions[c.reference].inputs)
         /\ Cardinality(Slot(Topic, GetProtectedKey(c.key, "searching",
                                                    workload.config))) = 1

\* ------------------------------------------------------ the steady state
\* the outputs the basket held when the store was constructed
InitialOutputs ==
    IF history # <<>> THEN history[1].before
    ELSE IF call[1].pc # "idle" THEN call[1].before ELSE outputs

StartsEmpty(key) ==
    \A o \in DOMAIN InitialOutputs : key \notin InitialOutputs[o].tags

\* a completed wallet.relinquishOutput of a finished call released the output
Released(o) ==
    \E n \in DOMAIN history : LET c == history[n] IN
    \E k \in DOMAIN c.log :
        /\ c.log[k] = <<"relinquishOutput", o, Context>>
        /\ ~(k = Len(c.log) /\ c.failed # <<>>
               /\ c.failed[Len(c.failed)] = "relinquishOutput")

\* the live tokens of a key: unspent, locked under the key, not released
LiveTokens(key) ==
    {o \in DOMAIN outputs :
        /\ ~outputs[o].spent
        /\ Spendable(outputs[o].lockingScript, key)
        /\ ~Released(o)}

SpendAccepted(c) == c.reference # 0 /\ actions[c.reference].status = "sent"

\* two set calls in progress at once that located the same live tokens
Racing(p, q) ==
    /\ p # q
    /\ call[p].op = "set" /\ call[q].op = "set"
    /\ call[p].key = call[q].key
    /\ Len(call[p].results.outputs) > 0
    /\ Range(call[p].results.outputs) = Range(call[q].results.outputs)

\* the sent transactions that spend the output
SpentBy(o) ==
    {t \in DOMAIN actions :
        actions[t].status = "sent" /\ o \in Range(actions[t].inputs)}

\* C26: of two overlapping set calls on one key that located the same live
\* tokens, at most one consolidation spend is accepted; the loser fails at its
\* signing/submission step, relinquishes exactly the tokens of its own
\* snapshot (each in listed order, all of them unless relinquishOutput itself
\* throws), and no token is spent by both calls.
C26_RaceOneWinner ==
    /\ \A o \in DOMAIN outputs : Cardinality(SpentBy(o)) <= 1
    /\ \A p, q \in Procs : Racing(p, q) =>
        LET c == call[p] d == call[q] IN
        /\ ~(SpendAccepted(c) /\ SpendAccepted(d))
        /\ (SpendAccepted(c) /\ Settled_(d)) =>
              /\ ConsolidationFailed(d)
              /\ nfaults = 0 => d.failed = <<"signAction">>
              /\ IsPrefix(RelinquishLog(d), RelinquishExpected(d))
              /\ RelinquishStepDone(d) => RelinquishLog(d) = RelinquishExpected(d)
              /\ Range(actions[c.reference].inputs) = Range(d.results.outputs)

C26_Witness ==
    \E p, q \in Procs :
    /\ Racing(p, q)
    /\ SpendAccepted(call[p]) /\ call[p].pc = "resolved"
    /\ call[q].pc = "resolved" /\ call[q].failed = <<"signAction">>
    /\ nfaults = 0
    /\ Len(call[q].results.outputs) = 2
    /\ Len(RelinquishLog(call[q])) = 2

\* C27: within one set or remove call there is one listOutputs; the inputs of
\* the spend, the unlocking proofs (proof i signs input index i in listed
\* order), the spends given to signAction and the tokens relinquished on
\* failure all come from that one snapshot, also when another writer changes
\* the slot during the call.
C27_OneSnapshot ==
    \A p \in Procs : LET c == call[p] n == Len(c.results.outputs) IN
    c.op \in {"set", "remove"} =>
      /\ Cardinality(CallsOf(c, "listOutputs")) <= 1
      /\ n > 0 => Cardinality(CallsOf(c, "listOutputs")) = 1
      /\ c.reference # 0 => actions[c.reference].inputs = c.results.outputs
      /\ Len(c.spends) <= n
      /\ \A k \in DOMAIN c.spends :
            c.spends[k] = [index |-> k - 1, tx |-> c.reference]
      /\ \A k \in CallsOf(c, "signAction") :
            /\ c.log[k] = <<"signAction", c.reference>>
            /\ Len(c.spends) = n
      /\ IsPrefix(RelinquishLog(c), RelinquishExpected(c))
      /\ RelinquishStepDone(c) => RelinquishLog(c) = RelinquishExpected(c)

C27_Witness ==
    \E p \in Procs : LET c == call[p] IN
    /\ c.op = "remove" /\ c.pc = "resolved"
    /\ Len(c.results.outputs) = 2
    /\ Slot(Context, c.key) # Range(c.results.outputs)
    /\ c.failed = <<"signAction">>
    /\ Len(c.spends) = 2
    /\ RelinquishLog(c) = RelinquishExpected(c)
    /\ \A o \in Range(c.results.outputs) : outputs[o].spent

\* ------------------------------------------------------ retry after a failure
\* C28: after a set whose consolidation failed, the next set(key, v) that runs
\* alone and meets no collaborator failure lists the slot again, succeeds and
\* leaves exactly one live token holding v, and a get that follows returns v.
C28_RetryConverges ==
    \A p \in Procs : LET c == call[p] IN
    /\ (/\ c.op = "set" /\ c.pc = "resolved" /\ NoFailure(c)
        /\ Len(history) >= 1
        /\ LastCall.op = "set" /\ LastCall.key = c.key
        /\ ConsolidationFailed(LastCall))
         => /\ Cardinality(CallsOf(c, "listOutputs")) = 1
            /\ \E o \in DOMAIN outputs :
                  /\ Slot(Context, c.key) = {o}
                  /\ TokenValue(outputs[o].lockingScript, c.key) = c.value
    /\ (/\ c.op = "get" /\ Settled_(c) /\ NoFailure(c)
        /\ Len(history) >= 2
        /\ \A k \in {Len(history) - 1, Len(history)} :
              history[k].op = "set" /\ history[k].key = c.key
        /\ ConsolidationFailed(history[Len(history) - 1])
        /\ LastCall.pc = "resolved" /\ NoFailure(LastCall))
         => c.ret = <<"value", LastCall.value>>

\* ------------------------------------------------------ a key written once
\* C29: for an envelope with no input ancestry whose own output verifies (the
\* envelope of a key written exactly once), interpret(envelope, 0) returns
\* the one-element list holding that value.
C29_WrittenOnce ==
    \A p \in Procs : LET c == call[p]
                         script == workload.envelope.outputScript IN
    (/\ c.op = "interpret" /\ Settled_(c)
     /\ workload.envelope.inputs = NoInputs
     /\ Written(script)
     /\ script.value \in workload.historian.accepts)
      => c.pc = "resolved" /\ c.ret[2] = <<script.value>>

\* ------------------------------------------------------ malformed nodes
\* the value a node contributes: it verifies, is not empty, passes the filter
Contributes(script) ==
    /\ Verified(workload.historian, script)
    /\ script.value # EmptyText
    /\ script.value \in workload.historian.accepts

\* C30: a malformed node anywhere in the envelope (inputs that are a string
\* of invalid JSON, a missing outputScript, a decode exception) never makes
\* interpret throw: the node contributes no value and the values of the
\* verified nodes around it are still returned. Stated for envelopes whose
\* own output does not verify, where the depth-0 filter is never called.
C30_MalformedTolerated ==
    \A p \in Procs : LET c == call[p]
                         nodes == NodesOf(workload.envelope) IN
    (/\ c.op = "interpret" /\ Settled_(c)
     /\ ~Verified(workload.historian, workload.envelope.outputScript))
      => /\ c.pc = "resolved"
         /\ c.ret[2] = ValuesOf(SelectSeq(Tail(nodes), Contributes))

\* ------------------------------------------------------ the order of a history
RECURSIVE AllParse(_)
\* every inputs field of the envelope is an object or a string of valid JSON
AllParse(envelope) ==
    /\ envelope.inputs.parses
    /\ \A k \in DOMAIN envelope.inputs.envelopes :
          AllParse(envelope.inputs.envelopes[k])

VerifiedNode(script) == Verified(workload.historian, script)

\* C31: the list interpret returns is in depth-first order: the root's value
\* first, then for each input in the order visited its value followed by the
\* history of its own ancestry; every verified node appears exactly once and
\* before its own ancestors.
C31_DepthFirstOrder ==
    \A p \in Procs : LET c == call[p]
                         nodes == NodesOf(workload.envelope) IN
    (/\ c.op = "interpret" /\ Settled_(c)
     /\ workload.historian.accepts = DefaultValidate
     /\ AllParse(workload.envelope))
      => /\ c.pc = "resolved"
         /\ c.ret[2] = ValuesOf(SelectSeq(nodes, VerifiedNode))

\* ------------------------------------------------------ termination
\* C32: interpret terminates on every finite ancestry envelope: it recurses
\* once per embedded input envelope and stops at each node whose inputs are
\* absent or empty. While it runs the invocations nest no deeper than the
\* envelope and number no more than its nodes; a call that resolves has made
\* one invocation per node and answers what the recursion answers.
C32_InterpretTerminates ==
    /\ [](\A p \in Procs : LET c == call[p]
                               nodes == NodesOf(workload.envelope) IN
          c.op = "interpret" =>
            /\ Len(c.fields) <= MaxDepth
            /\ c.i <= Len(nodes)
            /\ c.pc = "resolved" =>
                  /\ c.i = Len(nodes)
                  /\ c.ret[2] = Interpret(workload.historian, workload.envelope, 0).values)
    /\ \A p \in SeqProcs :
          (call[p].op = "interpret" /\ ~Settled_(call[p])) ~> Settled_(call[p])

C32_Witness ==
    \E p \in Procs : LET c == call[p] IN
    /\ c.op = "interpret" /\ c.pc = "resolved"
    /\ Len(workload.envelope.inputs.envelopes) = 2
    /\ c.i = 3
    /\ Len(c.ret[2]) = 2

\* C33: the history loop of findFromOverlay terminates for every finite
\* envelope: it ends when the chain of inputs is exhausted, also when an
\* ancestor fails to decode or fails the owner-key or signature check. No
\* call is ever in a turn of the loop that leaves currentInput as it was.
C33_OverlayLoopEnds ==
    \A p \in Procs : call[p].op = "shared.set" => call[p].pc # "shared_loop"

\* ------------------------------------------------------ where tokens are filed
\* C34: every token set creates (fresh, as the replacement of a consolidation,
\* or after a failed consolidation) is filed in basket = context with
\* tag = key, so that listOutputs for (context, key) returns it while unspent.
C34_TokensFiled ==
    \A p \in Procs : LET c == call[p] IN
    c.op = "set" =>
      \A k \in CallsOf(c, "createAction") :
         c.log[k][2] # 0 =>
            /\ \A j \in DOMAIN actions[c.log[k][2]].outputs :
                  /\ actions[c.log[k][2]].outputs[j].basket = Context
                  /\ c.key \in actions[c.log[k][2]].outputs[j].tags
            /\ LET o == Outpoint(c.log[k][2], 0) IN
               (o \in DOMAIN outputs /\ ~outputs[o].spent)
                  => o \in Slot(Context, c.key)

\* ------------------------------------------------------ two overlapping sets
\* C35: after two overlapping set calls on one key have both completed, in
\* every interleaving, the slot holds exactly one live token whose value is
\* one of the two values written.
C35_TwoSetsOneToken ==
    \A p, q \in Procs : LET c == call[p] d == call[q] IN
    (/\ p # q
     /\ c.op = "set" /\ d.op = "set" /\ c.key = d.key
     /\ c.pc = "resolved" /\ d.pc = "resolved"
     /\ nfaults = 0)
      => \E o \in DOMAIN outputs :
            /\ Slot(Context, c.key) = {o}
            /\ TokenValue(outputs[o].lockingScript, c.key) \in {c.value, d.value}

\* ------------------------------------------------------ a get during a set
\* C36: a get that overlaps a set on a key that has exactly one live token
\* returns the old value or the new value (or fails with the ambiguity
\* error); at no point of the set, its relinquish-then-create recovery
\* included, does get return the default.
C36_GetDuringSet ==
    \A p, q \in Procs : LET c == call[p] d == call[q] IN
    (/\ p # q
     /\ c.op = "get" /\ c.pc = "resolved" /\ NoFailure(c)
     /\ d.op = "set"
     /\ Cardinality(c.slot0) = 1 /\ d.slot0 = c.slot0)
      => /\ c.ret[1] = "value"
         /\ \E o \in d.slot0 :
               c.ret[2] \in {TokenValue(d.before[o].lockingScript, d.key), d.value}

\* ------------------------------------------------------ what relinquishing leaves
\* C37: after any sequence of set and remove calls, also ones whose
\* consolidation failed for a reason other than a competing spend, every
\* token of the key that is still unspent is still tracked in the basket.
\* Stated for the tokens the basket held at construction.
C37_NoPhantomToken ==
    \A o \in DOMAIN InitialOutputs :
        ~outputs[o].spent => outputs[o].basket = Context

\* C38: in the failure path of set and remove, if relinquishOutput itself
\* fails for one located token, every other located token is still
\* relinquished exactly once and the call still completes without rejecting.
C38_RelinquishFailureTolerated ==
    \A p \in Procs : LET c == call[p] IN
    (/\ c.op \in {"set", "remove"} /\ Settled_(c)
     /\ \E k \in DOMAIN c.failed : c.failed[k] = "relinquishOutput")
      => /\ c.pc = "resolved"
         /\ \A j \in DOMAIN c.results.outputs :
               Cardinality({k \in DOMAIN c.log :
                   c.log[k] = <<"relinquishOutput", c.results.outputs[j], Context>>}) = 1

\* ------------------------------------------------------ a partial listing
\* C39: set and remove consume every live token of the slot also when the
\* wallet reports more live tokens than it lists in one listOutputs result
\* (totalOutputs > outputs.length): the branch taken and the inputs built
\* agree, so no live token of the key is left out of the consolidation.
C39_PartialListing ==
    \A p \in Procs : LET c == call[p] IN
    (/\ c.op \in {"set", "remove"} /\ c.pc = "resolved" /\ NoFailure(c)
     /\ c.results.totalOutputs > Len(c.results.outputs))
      => /\ Range(actions[c.reference].inputs) = c.slot0
         /\ \A o \in c.slot0 : outputs[o].spent

\* ------------------------------------------------------ the validate filter
\* C40: the validate filter is applied in the same way to every verified
\* entry, the depth-0 root included: with the default filter a verified root
\* value is kept, with a custom filter an entry is kept exactly when the
\* filter accepts it, and a rejected entry does not stop the traversal of
\* its ancestors. Stated for envelopes that parse and whose root has inputs.
C40_FilterEverywhere ==
    \A p \in Procs : LET c == call[p]
                         nodes == NodesOf(workload.envelope) IN
    (/\ c.op = "interpret" /\ Settled_(c)
     /\ AllParse(workload.envelope)
     /\ Len(workload.envelope.inputs.envelopes) > 0)
      => /\ c.pc = "resolved"
         /\ c.ret[2] = ValuesOf(SelectSeq(nodes, Contributes))

=============================================================================
